---- MODULE Spec2Model ----
(***************************************************************************)
(* WhatsappBridge: the event pipeline between the injected page listeners  *)
(* and the NATS broker.                                                    *)
(*                                                                         *)
(*   SpecDedup      the deduplication filters of the injected listeners    *)
(*                  (shouldProcessMessage, shouldProcess/getKey)           *)
(*   SpecTransform  EventProcessor.processEvent and the EventTransformers  *)
(*   SpecSched      the bridge: menu commands, polling loops, per-event    *)
(*                  processing, publishing and statistics                  *)
(*   SpecPipeline   WhatsAppBridge.processEvent on one event after another *)
(*   SpecStats      the StatsCollector called in any order                 *)
(*   SpecFeedback   transform applied to what transform returned           *)
(*   SpecInject     injectEventListeners with store.js, its listeners and  *)
(*                  pollEvents                                             *)
(*   SpecConfig     publishing and its counters under the configurations   *)
(*                  the bridge accepts                                     *)
(*   SpecSchedFair  the polling loop under fair scheduling of its timers   *)
(*                  and awaits                                             *)
(***************************************************************************)
EXTENDS Integers, Sequences, FiniteSets, TLC

VARIABLES
    \* ---- injected page script (store.js, legacy BrowserManager.js injection)
    filter,             \* listeners attached: "message" | "contact" | "store" | "none"
    tick,               \* index of the current instant: Date.now() = Now
    processedMessages,  \* Map key -> timestamp of shouldProcessMessage
    seen,               \* Map key -> timestamp of shouldProcess (contacts)
    whatsappEvents,     \* window.whatsappEvents: records pushed by the listeners
    lastAccepted,       \* history: key -> time of its last accepted sighting
    lastCall,           \* history: the last call on the page script and what it did
    \* ---- EventProcessor
    eventTransformers,  \* this.eventTransformers is loaded (not null)
    xfPc,               \* "idle" | "received" | "done" | "again"
    xfIn,               \* the raw event handed to EventProcessor.processEvent
    xfOut,              \* what processEvent returned for it
    \* ---- WhatsAppBridge (index.js) and its managers
    isRunning,          \* WhatsAppBridge.isRunning
    bmRunning,          \* BrowserManager.isRunning
    bmBrowser,          \* BrowserManager.browser and .page are set (not null)
    natsConnected,      \* NATSManager.connection is set (not null)
    menu,               \* operator console: "idle" | "stopping" | "exited"
    loops,              \* the pollEvents closures created by startEventPolling
    nLoops,             \* how many startEventPolling calls were made
    eventStats,         \* StatsCollector.eventStats
    messageStats,       \* StatsCollector.messageStats
    performanceStats,   \* StatsCollector.performanceStats
    \* ---- environment of the bridge
    pageAlive,          \* the browser page exists and answers evaluate()
    closePending,       \* a 'disconnected'/'close' notification is still to be delivered
    nCaptured,          \* history: number of records the page has queued so far
    published           \* history: what the broker received, in order

dedupVars == <<filter, tick, processedMessages, seen, whatsappEvents, lastAccepted, lastCall>>

xfVars == <<eventTransformers, xfPc, xfIn, xfOut>>

schedVars == <<isRunning, bmRunning, bmBrowser, natsConnected, menu, loops, nLoops,
               eventStats, messageStats, performanceStats,
               pageAlive, closePending, nCaptured, published>>

vars == <<dedupVars, xfVars, schedVars>>

(***************************************************************************)
(* Bounds of the model                                                     *)
(***************************************************************************)
\* The code's ceiling is 1000 entries (store.js:440, BrowserManager.js:888);
\* the model keeps the comparison and scales the number.
CacheCeiling == 2
\* Records the page queue may hold before a poll drains it.
MaxQueue == 1
\* startEventPolling calls (polling loops) followed by the model.
MaxLoops == 2
\* Records the page queues over a run of the bridge.
MaxEvents == 2
\* config.polling.maxRetries (config/config.json is read at start-up).
MaxRetries == 3
\* The code keeps the last 1000 processing times (part_000:93); the model
\* keeps the comparison and scales the number.
MaxSamples == 2
\* Calls of each update operation of the StatsCollector followed between two
\* resets.
MaxCalls == 2

(***************************************************************************)
(* Program constants                                                       *)
(***************************************************************************)
FiveMinutesMs == 300000         \* 5 * 60 * 1000
TenMinutesMs == 600000          \* 10 * 60 * 1000
ContactAddTtlMs == 120000
ContactChangeTtlMs == 5000
ContactRemoveTtlMs == 120000

(***************************************************************************)
(* Time.  Date.now() only grows; the listeners are observed at the         *)
(* instants below (milliseconds after StartTime), chosen around the        *)
(* windows and sweep horizons of the two filters.                          *)
(***************************************************************************)
StartTime == 3 * TenMinutesMs

MsgInstants == <<0, 299999, 300000, 300001>>
ContactInstants == <<0, 5000, 600000, 600001>>

Instants == IF filter = "contact" THEN ContactInstants ELSE MsgInstants

Now == StartTime + Instants[tick]

(***************************************************************************)
(* JavaScript Map                                                          *)
(***************************************************************************)
EmptyMap == <<>>

MapHas(m, k) == k \in DOMAIN m

MapSet(m, k, v) == [x \in (DOMAIN m) \cup {k} |-> IF x = k THEN v ELSE m[x]]

MapSize(m) == Cardinality(DOMAIN m)

\* for (const [k, ts] of m) if (ts < cutoff) m.delete(k)
MapDeleteOlder(m, cutoff) == [x \in {y \in DOMAIN m : ~(m[y] < cutoff)} |-> m[x]]

(***************************************************************************)
(* Message filter: store.js 426-450 (the same text is injected by the      *)
(* legacy BrowserManager.js 797-819).                                      *)
(***************************************************************************)
NoId == "no_id"

MsgIds == {NoId, "m1"}

\* msg.ack: undefined (hasAck FALSE) or a level
Msgs == {[id |-> i, hasAck |-> FALSE, ack |-> 0] : i \in MsgIds}
        \cup {[id |-> i, hasAck |-> TRUE, ack |-> a] : i \in MsgIds, a \in {1, 2}}

\* `${messageId}_${eventType}_${msg.ack || 0}`
MsgKey(msg, eventType) == <<msg.id, eventType, IF msg.hasAck THEN msg.ack ELSE 0>>

\* Variant: the sweep forgets the horizon and drops every entry older than now.
shouldProcessMessage_SweepAll(cache, msg, eventType, t) ==
    IF msg.id = NoId
    THEN [ok |-> FALSE, cache |-> cache]
    ELSE LET key == MsgKey(msg, eventType) IN
         IF MapHas(cache, key)
         THEN [ok |-> FALSE, cache |-> cache]
         ELSE LET added == MapSet(cache, key, t) IN
              [ok |-> TRUE,
               cache |-> IF MapSize(added) > CacheCeiling
                         THEN MapDeleteOlder(added, t)
                         ELSE added]

shouldProcessMessage(cache, msg, eventType, t) ==
    IF msg.id = NoId
    THEN [ok |-> FALSE, cache |-> cache]
    ELSE LET key == MsgKey(msg, eventType) IN
         IF MapHas(cache, key)
         THEN [ok |-> FALSE, cache |-> cache]
         ELSE LET added == MapSet(cache, key, t) IN
              [ok |-> TRUE,
               cache |-> IF MapSize(added) > CacheCeiling
                         THEN MapDeleteOlder(added, t - FiveMinutesMs)
                         ELSE added]

(***************************************************************************)
(* Contact filter: BrowserManager.js 883-897                               *)
(***************************************************************************)
NoPhone == "no_phone"

\* contact.id._serialized / contact.phoneNumber, either possibly missing
Contacts == {[id |-> "c1", phone |-> NoPhone],
             [id |-> NoId, phone |-> NoPhone]}

\* contact?.id?._serialized || contact?.id || contact?.phoneNumber || 'unknown'
getKey(contact, type) ==
    <<IF contact.id # NoId THEN contact.id
      ELSE IF contact.phone # NoPhone THEN contact.phone
      ELSE "unknown",
      type>>

\* seen.get(key) || 0
SeenGet(cache, key) == IF MapHas(cache, key) THEN cache[key] ELSE 0

\* Variant: the contact sweep uses the five minute horizon
shouldProcess_ShortHorizon(cache, key, ttlMs, t) ==
    LET last == SeenGet(cache, key) IN
    IF t - last < ttlMs
    THEN [ok |-> FALSE, cache |-> cache]
    ELSE LET added == MapSet(cache, key, t) IN
         [ok |-> TRUE,
          cache |-> IF MapSize(added) > CacheCeiling
                    THEN MapDeleteOlder(added, t - FiveMinutesMs)
                    ELSE added]

\* Variant: a suppressed sighting refreshes the stored timestamp
shouldProcess_Refresh(cache, key, ttlMs, t) ==
    LET last == SeenGet(cache, key) IN
    IF t - last < ttlMs
    THEN [ok |-> FALSE, cache |-> MapSet(cache, key, t)]
    ELSE LET added == MapSet(cache, key, t) IN
         [ok |-> TRUE,
          cache |-> IF MapSize(added) > CacheCeiling
                    THEN MapDeleteOlder(added, t - TenMinutesMs)
                    ELSE added]

shouldProcess(cache, key, ttlMs, t) ==
    LET last == SeenGet(cache, key) IN
    IF t - last < ttlMs
    THEN [ok |-> FALSE, cache |-> cache]
    ELSE LET added == MapSet(cache, key, t) IN
         [ok |-> TRUE,
          cache |-> IF MapSize(added) > CacheCeiling
                    THEN MapDeleteOlder(added, t - TenMinutesMs)
                    ELSE added]

(***************************************************************************)
(* History of the listener calls                                           *)
(***************************************************************************)
\* seenBefore: the key had an accepted sighting before the call, at time prev
NoCall == [kind |-> "none", key |-> <<>>, hasId |-> FALSE, seenBefore |-> FALSE,
           prev |-> StartTime, window |-> FiveMinutesMs, ok |-> FALSE, pushed |-> FALSE]

\* The call is made at Now; lastCall is forgotten when the clock advances.
Call(kind, key, hasId, window, r, pushed) ==
    [kind |-> kind, key |-> key, hasId |-> hasId,
     seenBefore |-> MapHas(lastAccepted, key),
     prev |-> IF MapHas(lastAccepted, key) THEN lastAccepted[key] ELSE Now,
     window |-> window, ok |-> r.ok, pushed |-> pushed]

\* One listener call: r is the filter's answer, rec the record it would push.
Listener(kind, key, hasId, window, r, rec) ==
    /\ whatsappEvents' = IF r.ok THEN Append(whatsappEvents, rec) ELSE whatsappEvents
    /\ lastAccepted' = IF r.ok THEN MapSet(lastAccepted, key, Now) ELSE lastAccepted
    /\ lastCall' = Call(kind, key, hasId, window, r, whatsappEvents' # whatsappEvents)

(***************************************************************************)
(* Listeners                                                               *)
(***************************************************************************)
\* Store.Msg.on('add', ...) of the legacy injection: BrowserManager.js 820-829
\* (store.js 453-458 runs the same filter and calls emit: StoreOnAdd)
MsgOnAdd(msg) ==
    /\ filter = "message"
    /\ Len(whatsappEvents) < MaxQueue
    /\ LET r == shouldProcessMessage(processedMessages, msg, "create", Now) IN
       /\ processedMessages' = r.cache
       /\ Listener("message", MsgKey(msg, "create"), msg.id # NoId, FiveMinutesMs, r,
                   [type |-> "message_create", id |-> msg.id])
    /\ UNCHANGED <<filter, tick, seen, xfVars, schedVars>>

\* Store.Msg.on('change', ...) of the legacy injection: BrowserManager.js
\* 831-857 (store.js 460-474 runs the same filter and calls emit)
ChangeType(msg) ==
    IF msg.ack = 1 THEN "received"
    ELSE IF msg.ack = 2 THEN "delivered"
    ELSE "read"

MsgOnChange(msg) ==
    /\ filter = "message"
    /\ Len(whatsappEvents) < MaxQueue
    /\ msg.hasAck
    /\ msg.ack \in {1, 2, 3}
    /\ LET r == shouldProcessMessage(processedMessages, msg, ChangeType(msg), Now) IN
       /\ processedMessages' = r.cache
       /\ Listener("message", MsgKey(msg, ChangeType(msg)), msg.id # NoId, FiveMinutesMs, r,
                   [type |-> "message_" \o ChangeType(msg), id |-> msg.id])
    /\ UNCHANGED <<filter, tick, seen, xfVars, schedVars>>

ContactListener(c, type, ttlMs) ==
    /\ filter = "contact"
    /\ Len(whatsappEvents) < MaxQueue
    /\ LET r == shouldProcess(seen, getKey(c, type), ttlMs, Now) IN
       /\ seen' = r.cache
       /\ Listener("contact", getKey(c, type), c.id # NoId \/ c.phone # NoPhone, ttlMs, r,
                   [type |-> "contact_" \o type, id |-> c.id])
    /\ UNCHANGED <<filter, tick, processedMessages, xfVars, schedVars>>

\* Contact.on('add' | 'change' | 'remove', ...): BrowserManager.js 900-916
ContactOnAdd(c) == ContactListener(c, "add", ContactAddTtlMs)

ContactOnChange(c) == ContactListener(c, "change", ContactChangeTtlMs)

ContactOnRemove(c) == ContactListener(c, "remove", ContactRemoveTtlMs)

\* Date.now() advances to the next instant.
Advance ==
    /\ filter # "none"
    /\ tick < Len(Instants)
    /\ tick' = tick + 1
    /\ lastCall' = NoCall
    /\ UNCHANGED <<filter, processedMessages, seen, whatsappEvents, lastAccepted, xfVars, schedVars>>

\* page.evaluate callback of pollEvents: BrowserManager.js 175-179
DrainQueue ==
    /\ filter # "none"
    /\ whatsappEvents # <<>>
    /\ whatsappEvents' = <<>>
    /\ UNCHANGED <<filter, tick, processedMessages, seen, lastAccepted, lastCall, xfVars, schedVars>>

DedupInit(f) ==
    /\ filter = f
    /\ tick = 1
    /\ processedMessages = EmptyMap
    /\ seen = EmptyMap
    /\ whatsappEvents = <<>>
    /\ lastAccepted = EmptyMap
    /\ lastCall = NoCall

\* EventProcessor after construction, with no event in hand
NoRawEvent == [type |-> "none"]
NoResult == [action |-> "none", calls |-> <<>>]

XfIdle ==
    /\ eventTransformers = FALSE
    /\ xfPc = "idle"
    /\ xfIn = NoRawEvent
    /\ xfOut = NoResult

\* A pollEvents closure that startEventPolling has not created yet
NoLoop ==
    [pc |-> "unused", pollingRetries |-> 0, batch |-> <<>>,
     polls |-> 0, retries |-> 0, reason |-> "none",
     captureErrors |-> 0, halted |-> FALSE]

\* StatsCollector after construction, and after resetStats: lastReset is
\* Date.now()
NewEventStats ==
    [total |-> 0, byType |-> <<>>, lastReset |-> Now, errors |-> 0, filtered |-> 0,
     ignored |-> 0]
NewMessageStats ==
    [mainSubject |-> 0, contactSubject |-> 0, ignoredSubject |-> 0, presenceSubject |-> 0,
     lastReset |-> Now, errors |-> 0]
\* averageProcessingTime is kept as the pair sum/count; minIsInfinity stands
\* for minProcessingTime = Infinity
NewPerformanceStats ==
    [eventProcessingTimes |-> <<>>, averageSum |-> 0, averageCount |-> 0,
     maxProcessingTime |-> 0, minIsInfinity |-> TRUE, minProcessingTime |-> 0]

\* WhatsAppBridge and its managers after construction, no browser launched
SchedIdle ==
    /\ isRunning = FALSE
    /\ bmRunning = FALSE
    /\ bmBrowser = FALSE
    /\ natsConnected = FALSE
    /\ menu = "idle"
    /\ loops = [l \in 1..MaxLoops |-> NoLoop]
    /\ nLoops = 0
    /\ eventStats = NewEventStats
    /\ messageStats = NewMessageStats
    /\ performanceStats = NewPerformanceStats
    /\ pageAlive = FALSE
    /\ closePending = FALSE
    /\ nCaptured = 0
    /\ published = <<>>

InitDedup == (\E f \in {"message", "contact"} : DedupInit(f)) /\ XfIdle /\ SchedIdle

NextDedup ==
    \/ \E msg \in Msgs : MsgOnAdd(msg)
    \/ \E msg \in Msgs : MsgOnChange(msg)
    \/ \E c \in Contacts : ContactOnAdd(c)
    \/ \E c \in Contacts : ContactOnChange(c)
    \/ \E c \in Contacts : ContactOnRemove(c)
    \/ Advance
    \/ DrainQueue

SpecDedup == InitDedup /\ [][NextDedup]_vars

(***************************************************************************)
(* Deduplication claims (SpecDedup)                                        *)
(***************************************************************************)
Called == lastCall.kind # "none"

SeenBefore == Called /\ lastCall.seenBefore

\* Time between the call and the last accepted sighting of its key before it.
Gap == Now - lastCall.prev

\* C1: a sighting of a key whose last accepted sighting lies less than the
\* retention window back (5 minutes for messages, the listener's ttl for
\* contacts) is suppressed: the filter answers false and nothing is pushed.
C1_DuplicateWithinWindowSuppressed ==
    (SeenBefore /\ Gap < lastCall.window) => (~lastCall.ok /\ ~lastCall.pushed)

\* A message key seen again 299999 ms after it was accepted, and suppressed.
C1_Witness ==
    /\ lastCall.kind = "message"
    /\ SeenBefore
    /\ Gap = FiveMinutesMs - 1
    /\ ~lastCall.ok

\* C2 (as claimed): a sighting of a key whose last accepted sighting lies
\* more than the retention window back is processed again, for the message
\* filter and for the contact filter.
C2_FreshAfterWindowProcessed ==
    (SeenBefore /\ Gap > lastCall.window) => (lastCall.ok /\ lastCall.pushed)

\* C3 (as claimed): an event without an extractable identifier passes the
\* filter and is pushed on every occurrence.
C3_NoIdentifierAlwaysProcessed ==
    (Called /\ ~lastCall.hasId) => (lastCall.ok /\ lastCall.pushed)

\* C4 (as claimed): neither cache ever holds more than ceiling + 1 entries.
C4_CacheBounded ==
    /\ MapSize(processedMessages) <= CacheCeiling + 1
    /\ MapSize(seen) <= CacheCeiling + 1

\* The step ends with a suppressed listener call as the last call
Suppressed == lastCall'.kind # "none" /\ ~lastCall'.ok

C22_Step ==
    Suppressed =>
        /\ processedMessages' = processedMessages
        /\ seen' = seen
        /\ lastAccepted' = lastAccepted

\* Every stored timestamp is the time of the key's last accepted sighting
C22_State ==
    /\ \A k \in DOMAIN processedMessages : processedMessages[k] = lastAccepted[k]
    /\ \A k \in DOMAIN seen : seen[k] = lastAccepted[k]

\* C22: a listener call that the filter suppresses changes neither cache:
\* no entry is added, removed or re-stamped and no sweep runs, so every
\* stored timestamp stays that of the key's last accepted sighting.
C22_SuppressedLeavesCache == [](C22_State) /\ [][C22_Step]_vars

\* a contact key seen again later within its window, suppressed, its entry
\* still carrying the time of the accepted sighting
C22_Witness ==
    /\ lastCall.kind = "contact"
    /\ SeenBefore
    /\ ~lastCall.ok
    /\ Gap > 0
    /\ MapHas(seen, lastCall.key)
    /\ seen[lastCall.key] = lastCall.prev

\* C23 (as claimed): a sighting of a key exactly one retention window after
\* its last accepted sighting is still a duplicate: it is suppressed and
\* nothing is pushed.
C23_BoundaryIsDuplicate ==
    (SeenBefore /\ Gap = lastCall.window) => (~lastCall.ok /\ ~lastCall.pushed)

\* The entries of a cache that are older than the horizon at Now
OlderThan(cache, horizon) == {k \in DOMAIN cache : Now - cache[k] > horizon}

\* What a step may do to a cache with the given sweep horizon: entries go
\* only in the step of an accepted call whose insert takes the population
\* over the ceiling, and then exactly the entries older than the horizon go.
EvictsOnlyBySweep(cache, cacheAfter, horizon) ==
    LET inserted == MapSet(cache, lastCall'.key, Now) IN
    /\ (DOMAIN cache \ DOMAIN cacheAfter) # {} =>
            /\ lastCall'.kind # "none"
            /\ lastCall'.ok
            /\ tick' = tick
            /\ MapSize(inserted) > CacheCeiling
    /\ (DOMAIN cache \ DOMAIN cacheAfter) = 
            IF lastCall'.kind # "none" /\ lastCall'.ok /\ cacheAfter # cache
                  /\ MapSize(inserted) > CacheCeiling
            THEN OlderThan(inserted, horizon)
            ELSE {}
    /\ \A k \in DOMAIN cache \cap DOMAIN cacheAfter :
            k # lastCall'.key => cacheAfter[k] = cache[k]

\* C24: an entry leaves a cache only in the sweep of an accepted insert that
\* takes the population over the ceiling, never when the clock advances and
\* never on a suppressed call; the sweep removes exactly the entries older
\* than 5 minutes (messages) or 10 minutes (contacts), so no entry younger
\* than its retention window goes.
C24_EvictionOnlyBySweep ==
    [][/\ EvictsOnlyBySweep(processedMessages, processedMessages', FiveMinutesMs)
       /\ EvictsOnlyBySweep(seen, seen', TenMinutesMs)]_vars

\* a contact key accepted more than ten minutes ago is no longer in the
\* cache, while one accepted less than ten minutes ago has stayed
C24_Witness ==
    /\ lastCall.kind = "contact"
    /\ lastCall.ok
    /\ \E k \in DOMAIN lastAccepted : ~MapHas(seen, k) /\ Now - lastAccepted[k] > TenMinutesMs
    /\ \E k \in DOMAIN seen : k # lastCall.key /\ Now - seen[k] > FiveMinutesMs

(***************************************************************************)
(* JavaScript values.  Every scalar read from a raw event is a token:      *)
(* undefined, null, true, false, a number "#n", an object without the      *)
(* fields read, or a string (any other token).                             *)
(***************************************************************************)
Undef == "<undefined>"
NullV == "<null>"
TrueV == "<true>"
FalseV == "<false>"
ObjV == "<object>"

Numbers == {"#0", "#1", "#2", "#3", "#4", "#5", "#86400", "#1700000000"}

Nullish(v) == v \in {Undef, NullV}

Truthy(v) == v \notin {Undef, NullV, FalseV, "", "#0"}

IsString(v) == v \notin ({Undef, NullV, TrueV, FalseV, ObjV} \cup Numbers)

Bool(b) == IF b THEN TrueV ELSE FalseV

\* a || b
Or(a, b) == IF Truthy(a) THEN a ELSE b

\* String(v), as used for property keys and by toString()
ToStr(v) ==
    CASE v = "#0" -> "0"
      [] v = "#1" -> "1"
      [] v = "#2" -> "2"
      [] v = "#3" -> "3"
      [] v = "#4" -> "4"
      [] v = "#5" -> "5"
      [] v = "#86400" -> "86400"
      [] v = "#1700000000" -> "1700000000"
      [] v = TrueV -> "true"
      [] v = FalseV -> "false"
      [] v = ObjV -> "[object Object]"
      [] v = Undef -> "undefined"
      [] v = NullV -> "null"
      [] OTHER -> v

\* v?.toString()
OptToString(v) == IF Nullish(v) THEN Undef ELSE ToStr(v)

\* Values v for which new Date(v * 1000) is a valid date
ValidSeconds == {"#1", "#5", "#86400", "#1700000000", "1700000000", TrueV}

\* new Date(v * 1000).toISOString(), for v in ValidSeconds
SecondsToIso(v) ==
    CASE v \in {"#1", TrueV} -> "1970-01-01T00:00:01.000Z"
      [] v = "#5" -> "1970-01-01T00:00:05.000Z"
      [] v = "#86400" -> "1970-01-02T00:00:00.000Z"
      [] OTHER -> "2023-11-14T22:13:20.000Z"

\* Strings holding the group marker: s.includes('@g.us')
HasGroupMarker(s) == s \in {"120363@g.us", "120364@g.us"}

\* s.replace(/@(c\.us|lid)$/, '')
StripSuffix(s) ==
    CASE s = "5511@c.us" -> "5511"
      [] s = "5522@c.us" -> "5522"
      [] s = "77@lid" -> "77"
      [] OTHER -> s

\* The outcome of evaluating an expression: a value, or a TypeError/RangeError.
Ok(v) == [raise |-> FALSE, v |-> v]
Raise == [raise |-> TRUE, v |-> Undef]

\* c1 || c2, left to right, the right side evaluated only when needed
OrElse(c1, c2) == IF c1.raise \/ Truthy(c1.v) THEN c1 ELSE c2

\* v?.includes('@g.us')
OptIncludesGroup(v) ==
    IF Nullish(v) THEN Ok(Undef)
    ELSE IF IsString(v) THEN Ok(Bool(HasGroupMarker(v)))
    ELSE Raise

(***************************************************************************)
(* EventTransformers (src/unnamed/part_001), with the default tables of    *)
(* its constructor.                                                        *)
(***************************************************************************)
EventTypes ==
    [STATUS_CREATED |-> "status_created", STATUS_RECEIVED |-> "status_received",
     STATUS_READ |-> "status_read", MESSAGE_SENT |-> "message_sent",
     MESSAGE_DELIVERED |-> "message_delivered", MESSAGE_READ |-> "message_read",
     MESSAGE_PLAYED |-> "message_played", MESSAGE_CREATED |-> "message_created",
     MESSAGE_REVOKED |-> "message_revoked",
     DISAPPEARING_MODE_CHANGED |-> "disappearing_mode_changed"]

MessageTypes == {"chat", "image", "video", "audio", "document", "sticker", "ptt", "ptv",
                 "album", "gp2", "revoked", "notification_template"}

\* {type, subtypes}; no subtypes is the empty set with hasSubtypes FALSE
IgnoredTypes ==
    {[type |-> "e2e_notification", hasSubtypes |-> TRUE, subtypes |-> {"encrypt"}],
     [type |-> "ciphertext", hasSubtypes |-> FALSE, subtypes |-> {}]}

GroupActionNames == {"add", "remove", "promote", "demote", "modify", "create", "subject",
                     "description", "picture"}

GroupActions(subtype) ==
    CASE subtype = "add" -> "member_added"
      [] subtype = "remove" -> "member_removed"
      [] subtype = "promote" -> "member_promoted"
      [] subtype = "demote" -> "member_demoted"
      [] subtype = "modify" -> "group_modified"
      [] subtype = "create" -> "group_created"
      [] subtype = "subject" -> "name_changed"
      [] subtype = "description" -> "description_changed"
      [] subtype = "picture" -> "picture_changed"
      [] OTHER -> Undef

\* __raw.recipients: undefined, a list of values, or a value that is no list
NoList == [kind |-> "undefined", items |-> <<>>]
NotAList == [kind |-> "other", items |-> <<>>]
List(items) == [kind |-> "list", items |-> items]

\* The fields of event.data.data (the serialized message) the mappers read;
\* a path through a missing object reads undefined.
BaseMsg ==
    [type |-> "chat", subtype |-> Undef, ack |-> Undef, body |-> "hello",
     timestamp |-> "#1700000000",
     id_id |-> "3EB0", id_fromMe |-> FalseV, id_remote_ser |-> "5511@c.us",
     id_remote_user |-> "5511", id_participant_user |-> Undef,
     from_user |-> "5511", to_user |-> "5522",
     raw_mimetype |-> Undef, raw_from |-> "5511@c.us", raw_author |-> Undef,
     raw_subtype |-> Undef, raw_ephemeralDuration |-> Undef,
     raw_ephemeralSettingUser |-> Undef, raw_revokeTimestamp |-> Undef,
     raw_protocolMessageKey_id |-> Undef, raw_recipients |-> NoList]

\* event.data.data of a record that carries no message fields at all
EmptyMsg ==
    [type |-> Undef, subtype |-> Undef, ack |-> Undef, body |-> Undef, timestamp |-> Undef,
     id_id |-> Undef, id_fromMe |-> Undef, id_remote_ser |-> Undef,
     id_remote_user |-> Undef, id_participant_user |-> Undef,
     from_user |-> Undef, to_user |-> Undef,
     raw_mimetype |-> Undef, raw_from |-> Undef, raw_author |-> Undef,
     raw_subtype |-> Undef, raw_ephemeralDuration |-> Undef,
     raw_ephemeralSettingUser |-> Undef, raw_revokeTimestamp |-> Undef,
     raw_protocolMessageKey_id |-> Undef, raw_recipients |-> NoList]

\* A polled record {type, data, timestamp}: hasData says whether .data is an object.
RawEvent(type, hasData, msg) == [type |-> type, hasData |-> hasData, msg |-> msg]

\* eventData = {id, timestamp, data: rawEvent}  (EventProcessor.js 39-43)
EventData(rawEvent) == [id |-> "id-1", timestamp |-> "2026-01-01T00:00:00.000Z", data |-> rawEvent]

\* event.data?.data, when it is an object
HasOriginal(event) == event.data.hasData
Original(event) == event.data.msg

\* part_001 52-55
isStatusEvent(event) ==
    /\ HasOriginal(event)
    /\ \/ Original(event).id_remote_ser = "status@broadcast"
       \/ Original(event).from_user = "status"

\* Variant: the durable table ends at level 3
getEventTypeByAck_NoPlayed(ack, isStatus) ==
    LET key == ToStr(ack) IN
    IF isStatus
    THEN CASE key = "1" -> EventTypes.STATUS_CREATED
           [] key = "2" -> EventTypes.STATUS_RECEIVED
           [] key = "3" -> EventTypes.STATUS_READ
           [] OTHER -> NullV
    ELSE CASE key = "1" -> EventTypes.MESSAGE_SENT
           [] key = "2" -> EventTypes.MESSAGE_DELIVERED
           [] key = "3" -> EventTypes.MESSAGE_READ
           [] OTHER -> EventTypes.MESSAGE_CREATED

\* part_001 57-70: ackMap[ack] || (isStatus ? null : MESSAGE_CREATED)
getEventTypeByAck(ack, isStatus) ==
    LET key == ToStr(ack) IN
    IF isStatus
    THEN CASE key = "1" -> EventTypes.STATUS_CREATED
           [] key = "2" -> EventTypes.STATUS_RECEIVED
           [] key = "3" -> EventTypes.STATUS_READ
           [] OTHER -> NullV
    ELSE CASE key = "1" -> EventTypes.MESSAGE_SENT
           [] key = "2" -> EventTypes.MESSAGE_DELIVERED
           [] key = "3" -> EventTypes.MESSAGE_READ
           [] key = "4" -> EventTypes.MESSAGE_PLAYED
           [] OTHER -> EventTypes.MESSAGE_CREATED

\* part_001 72-76
isGroupMessage(o) ==
    OrElse(OptIncludesGroup(o.from_user),
           OrElse(OptIncludesGroup(o.id_remote_user), OptIncludesGroup(o.raw_from)))

\* part_001 78-80: id ? id.replace(/@(c\.us|lid)$/, '') : null
normalizeId(id) ==
    IF ~Truthy(id) THEN Ok(NullV)
    ELSE IF IsString(id) THEN Ok(StripSuffix(id))
    ELSE Raise

\* part_001 82-88
getMediaFormat(o) ==
    LET mimetype == o.raw_mimetype IN
    IF Truthy(mimetype) /\ ~IsString(mimetype) THEN Raise
    ELSE IF Truthy(mimetype) THEN Ok(mimetype)
    ELSE LET isText == o.type = "chat" \/ Truthy(o.body) IN
         Ok(Or(mimetype, IF isText THEN "text" ELSE NullV))

\* part_001 90-98: the timestamp of the built event
baseTimestamp(event, o) ==
    IF ~Truthy(o.timestamp) THEN Ok(event.timestamp)
    ELSE IF o.timestamp \in ValidSeconds THEN Ok(SecondsToIso(o.timestamp))
    ELSE Raise

\* The data of a built event.  A field the mapper does not set is undefined
\* (JSON.stringify leaves it out).
NoFields ==
    [kind |-> "none", status_id |-> Undef, message_id |-> Undef, type |-> Undef,
     format |-> Undef, status_author_number |-> Undef, reader_number |-> Undef,
     read_time |-> Undef, from_number |-> Undef, to_number |-> Undef, isGroup |-> Undef,
     group_id |-> Undef, fromMe |-> Undef, message_time |-> Undef, body |-> Undef,
     ephemeral_duration |-> Undef, setting_user |-> Undef, notification_type |-> Undef,
     revoke_timestamp |-> Undef, revoked_by |-> Undef, original_message_id |-> Undef,
     group_action |-> Undef, recipients |-> NoList, action_by |-> Undef]

\* What a mapper returns: null, a thrown error, a built event, or (transform
\* only) the input event itself.
TNull == [tag |-> "null"]
TRaise == [tag |-> "raise"]
TEvent(id, ts, data) == [tag |-> "event", internal_event_id |-> id, timestamp |-> ts, data |-> data]
TSame(event) == [tag |-> "same", event |-> event]

\* part_001 90-98
buildBaseTransformedEvent(event, o, transformedData) ==
    LET ts == baseTimestamp(event, o) IN
    IF ts.raise THEN TRaise ELSE TEvent(event.id, ts.v, transformedData)

\* if (originalData.body && originalData.type === 'chat') transformedData.body = ...
WithBody(o, d) == IF Truthy(o.body) /\ o.type = "chat" THEN [d EXCEPT !.body = o.body] ELSE d

\* part_001 118-141
transformStatusEvent(event) ==
    IF ~isStatusEvent(event) THEN TNull
    ELSE LET o == Original(event)
             eventType == getEventTypeByAck(o.ack, TRUE)
             format == getMediaFormat(o)
         IN IF ~Truthy(eventType) THEN TNull
            ELSE IF format.raise THEN TRaise
            ELSE buildBaseTransformedEvent(event, o,
                    WithBody(o,
                      [NoFields EXCEPT
                         !.kind = "status",
                         !.status_id = Or(o.id_id, NullV),
                         !.type = eventType,
                         !.format = format.v,
                         !.status_author_number = Or(Or(o.id_participant_user, o.from_user), NullV),
                         !.reader_number = Or(o.to_user, NullV),
                         !.read_time = Or(OptToString(o.timestamp), NullV),
                         !.fromMe = Or(o.id_fromMe, FalseV)]))

\* part_001 192-202
handleNotificationTemplate(o, d) ==
    IF o.raw_subtype = "disappearing_mode"
    THEN LET user == normalizeId(o.raw_ephemeralSettingUser) IN
         [raise |-> user.raise,
          d |-> [d EXCEPT !.type = EventTypes.DISAPPEARING_MODE_CHANGED,
                          !.ephemeral_duration = Or(o.raw_ephemeralDuration, NullV),
                          !.setting_user = user.v]]
    ELSE [raise |-> FALSE,
          d |-> [d EXCEPT !.notification_type = Or(o.raw_subtype, "unknown")]]

\* part_001 204-211
handleRevokedMessage(o, d) ==
    LET by == normalizeId(Or(o.id_participant_user, o.raw_author)) IN
    [raise |-> by.raise,
     d |-> [d EXCEPT !.type = EventTypes.MESSAGE_REVOKED,
                     !.revoke_timestamp = Or(OptToString(o.raw_revokeTimestamp), NullV),
                     !.revoked_by = by.v,
                     !.original_message_id = Or(o.raw_protocolMessageKey_id, NullV)]]

\* recipients.map(id => this._normalizeId(id)).filter(Boolean)
NormalizeRecipients(r) ==
    IF r.kind = "undefined" THEN [raise |-> FALSE, list |-> List(<<>>)]
    ELSE IF r.kind # "list" THEN [raise |-> TRUE, list |-> NoList]
    ELSE LET mapped == [i \in 1..Len(r.items) |-> normalizeId(r.items[i])]
             values == [i \in 1..Len(r.items) |-> mapped[i].v]
         IN [raise |-> \E i \in 1..Len(r.items) : mapped[i].raise,
             list |-> List(SelectSeq(values, Truthy))]

\* part_001 213-222
handleGroupEvent(o, d) ==
    LET recipients == NormalizeRecipients(o.raw_recipients)
        by == normalizeId(Or(o.id_participant_user, o.raw_author))
    IN [raise |-> recipients.raise \/ by.raise,
        d |-> [d EXCEPT !.group_action = Or(Or(GroupActions(o.raw_subtype), o.raw_subtype), "unknown"),
                        !.recipients = recipients.list,
                        !.action_by = by.v]]

\* part_001 178-190
handleSpecialMessageTypes(o, d) ==
    CASE o.type = "notification_template" -> handleNotificationTemplate(o, d)
      [] o.type = "revoked" -> handleRevokedMessage(o, d)
      [] o.type = "gp2" -> handleGroupEvent(o, d)
      [] OTHER -> [raise |-> FALSE, d |-> d]

\* part_001 156-160: the from_number of a chat message
fromNumber(o, isGroup) ==
    IF Truthy(isGroup)
    THEN OrElse(Ok(o.id_participant_user),
                OrElse(normalizeId(o.raw_author), Ok(o.from_user)))
    ELSE Ok(Or(o.from_user, NullV))

\* part_001 143-176
transformChatMessage(event) ==
    IF ~HasOriginal(event) THEN TNull
    ELSE IF Original(event).type \notin MessageTypes THEN TNull
    ELSE LET o == Original(event)
             messageType == getEventTypeByAck(o.ack, FALSE)
             isGroup == isGroupMessage(o)
             from == fromNumber(o, isGroup.v)
             d0 == [NoFields EXCEPT
                      !.kind = "chat",
                      !.message_id = Or(o.id_id, NullV),
                      !.type = messageType,
                      !.format = Or(o.raw_mimetype, o.type),
                      !.from_number = from.v,
                      !.to_number = Or(o.to_user, NullV),
                      !.isGroup = isGroup.v,
                      !.group_id = IF Truthy(isGroup.v)
                                   THEN Or(Or(o.from_user, o.id_remote_user), NullV)
                                   ELSE NullV,
                      !.fromMe = Or(o.id_fromMe, FalseV),
                      !.message_time = Or(OptToString(o.timestamp), NullV)]
             special == handleSpecialMessageTypes(o, d0)
         IN IF isGroup.raise \/ from.raise \/ special.raise THEN TRaise
            ELSE buildBaseTransformedEvent(event, o, WithBody(o, special.d))

\* Variant: a rule matches on the type alone
shouldIgnoreEvent_TypeOnly(event) ==
    LET type == IF HasOriginal(event) THEN Original(event).type ELSE event.data.type
    IN \E ignored \in IgnoredTypes : type = ignored.type

\* part_001 100-116.  eventData = event.data?.data || event.data: the message
\* when the record carries one, else the polled record itself, which has a
\* type and neither subtype nor __raw.
shouldIgnoreEvent(event) ==
    LET type == IF HasOriginal(event) THEN Original(event).type ELSE event.data.type
        subtype == IF HasOriginal(event)
                   THEN Or(Original(event).subtype, Original(event).raw_subtype)
                   ELSE Undef
    IN \E ignored \in IgnoredTypes :
          /\ type = ignored.type
          /\ ignored.hasSubtypes => subtype \in ignored.subtypes

isIgnored(event) == shouldIgnoreEvent(event)

\* Variant: an event no mapper matches is dropped
transform_DropUnmatched(event) ==
    IF shouldIgnoreEvent(event) THEN TNull
    ELSE LET statusTransformed == transformStatusEvent(event) IN
         IF statusTransformed.tag # "null" THEN statusTransformed
         ELSE LET chatTransformed == transformChatMessage(event) IN
              IF chatTransformed.tag # "null" THEN chatTransformed
              ELSE TNull

\* Variant: the fall-through case builds a new event around the input's data
transform_Rebuild(event) ==
    IF shouldIgnoreEvent(event) THEN TNull
    ELSE LET statusTransformed == transformStatusEvent(event) IN
         IF statusTransformed.tag # "null" THEN statusTransformed
         ELSE LET chatTransformed == transformChatMessage(event) IN
              IF chatTransformed.tag # "null" THEN chatTransformed
              ELSE TEvent(event.id, event.timestamp, event.data)

\* part_001 224-234
transform(event) ==
    IF shouldIgnoreEvent(event) THEN TNull
    ELSE LET statusTransformed == transformStatusEvent(event) IN
         IF statusTransformed.tag # "null" THEN statusTransformed
         ELSE LET chatTransformed == transformChatMessage(event) IN
              IF chatTransformed.tag # "null" THEN chatTransformed
              ELSE TSame(event)

(***************************************************************************)
(* EventProcessor.processEvent (src/src/EventProcessor.js 36-100)          *)
(***************************************************************************)
\* loaded: this.eventTransformers after the load attempt of lines 46-48.
\* calls: the transformer methods the call invoked, in order.

\* Variant that transforms first and consults the ignore rules afterwards
EP_processEvent_TransformFirst(rawEvent, loaded) ==
    LET eventData == EventData(rawEvent) IN
    IF ~loaded
    THEN [action |-> "skip", reason |-> "transformers_unavailable", calls |-> <<>>]
    ELSE LET transformedEvent == transform(eventData) IN
         CASE transformedEvent.tag = "raise" ->
                [action |-> "error", eventType |-> Or(rawEvent.type, "unknown"),
                 calls |-> <<"transform">>]
           [] isIgnored(eventData) ->
                [action |-> "ignore", eventData |-> eventData, eventType |-> rawEvent.type,
                 calls |-> <<"transform", "isIgnored">>]
           [] transformedEvent.tag = "null" ->
                [action |-> "filter", reason |-> "filtered_by_transformer",
                 eventType |-> rawEvent.type, calls |-> <<"transform", "isIgnored">>]
           [] OTHER ->
                [action |-> "publish", eventData |-> transformedEvent,
                 originalEventData |-> eventData, eventType |-> rawEvent.type,
                 wasTransformed |-> transformedEvent.tag # "same",
                 calls |-> <<"transform", "isIgnored">>]

EP_processEvent(rawEvent, loaded) ==
    LET eventData == EventData(rawEvent) IN
    IF ~loaded
    THEN [action |-> "skip", reason |-> "transformers_unavailable", calls |-> <<>>]
    ELSE IF isIgnored(eventData)
    THEN [action |-> "ignore", eventData |-> eventData, eventType |-> rawEvent.type,
          calls |-> <<"isIgnored">>]
    ELSE LET transformedEvent == transform(eventData) IN
         CASE transformedEvent.tag = "raise" ->
                [action |-> "error", eventType |-> Or(rawEvent.type, "unknown"),
                 calls |-> <<"isIgnored", "transform">>]
           [] transformedEvent.tag = "null" ->
                [action |-> "filter", reason |-> "filtered_by_transformer",
                 eventType |-> rawEvent.type, calls |-> <<"isIgnored", "transform">>]
           [] OTHER ->
                [action |-> "publish", eventData |-> transformedEvent,
                 originalEventData |-> eventData, eventType |-> rawEvent.type,
                 wasTransformed |-> transformedEvent.tag # "same",
                 calls |-> <<"isIgnored", "transform">>]

(***************************************************************************)
(* Raw events fed to the Transformation Engine                            *)
(***************************************************************************)
AckLevels == {Undef, "#0", "#1", "#2", "#3", "#4", "#5"}

\* plain, status and media messages
XfPlainMsgs ==
    {[BaseMsg EXCEPT !.type = t, !.ack = a, !.id_remote_ser = rs, !.raw_mimetype = mm,
                     !.timestamp = ts, !.body = b] :
        t \in {"chat", "image", "call_log", Undef},
        a \in AckLevels,
        rs \in {"status@broadcast", "5511@c.us"},
        mm \in {Undef, "audio/ogg", "#5"},
        ts \in {Undef, "#1700000000", "yesterday"},
        b \in {Undef, "hello"}}

\* group messages
XfGroupMsgs ==
    {[BaseMsg EXCEPT !.from_user = fu, !.id_remote_user = ru, !.raw_from = rf,
                     !.id_participant_user = pu, !.raw_author = au, !.ack = a] :
        fu \in {Undef, "5511", "120363@g.us", "#5"},
        ru \in {Undef, "120364@g.us", ObjV},
        rf \in {Undef, "120363@g.us", "5511@c.us", ObjV},
        pu \in {Undef, "5522"},
        au \in {Undef, "5522@c.us", "77@lid", ObjV},
        a \in {Undef, "#2"}}

\* notifications, revocations, group actions, ignored types
XfSpecialMsgs ==
    {[BaseMsg EXCEPT !.type = t, !.subtype = st, !.raw_subtype = rst,
                     !.raw_ephemeralDuration = dur, !.raw_ephemeralSettingUser = su,
                     !.raw_author = au, !.raw_recipients = rc, !.body = Undef] :
        t \in {"notification_template", "revoked", "gp2", "e2e_notification", "ciphertext"},
        st \in {Undef, "encrypt"},
        rst \in {Undef, "disappearing_mode", "add", "encrypt", "leave"},
        dur \in {Undef, "#86400"},
        su \in {Undef, "5511@c.us", ObjV},
        au \in {Undef, "5522@c.us"},
        rc \in {NoList, NotAList, List(<<"5511@c.us", "77@lid">>), List(<<"5511@c.us", ObjV>>),
                List(<<"", "5522@c.us">>)}}

XfRawEvents ==
    {RawEvent("message_create", TRUE, m) : m \in XfPlainMsgs \cup XfGroupMsgs \cup XfSpecialMsgs}
    \cup {RawEvent(t, TRUE, EmptyMsg) :
            t \in {"contact_add", "presence_change", "connection_state", Undef}}
    \cup {RawEvent(t, FALSE, EmptyMsg) : t \in {"store_ready", "ciphertext", Undef}}

\* The processor is handed a raw event.
XfReceive(e) ==
    /\ xfPc = "idle"
    /\ xfPc' = "received"
    /\ xfIn' = e
    /\ xfOut' = NoResult
    /\ UNCHANGED <<eventTransformers, dedupVars, schedVars>>

\* processEvent runs on it; loadOk: requiring the transformers module succeeds.
XfProcess(loadOk) ==
    /\ xfPc = "received"
    /\ xfPc' = "done"
    /\ eventTransformers' = (eventTransformers \/ loadOk)
    /\ xfOut' = EP_processEvent(xfIn, eventTransformers')
    /\ UNCHANGED <<xfIn, dedupVars, schedVars>>

\* The caller is done with the result.
XfRelease ==
    /\ xfPc = "done"
    /\ xfPc' = "idle"
    /\ xfIn' = NoRawEvent
    /\ xfOut' = NoResult
    /\ UNCHANGED <<eventTransformers, dedupVars, schedVars>>

DedupIdle == DedupInit("none")

InitTransform == DedupIdle /\ XfIdle /\ SchedIdle

NextTransform ==
    \/ \E e \in XfRawEvents : XfReceive(e)
    \/ \E loadOk \in BOOLEAN : XfProcess(loadOk)
    \/ XfRelease

SpecTransform == InitTransform /\ [][NextTransform]_vars

(***************************************************************************)
(* Transformation claims (SpecTransform)                                   *)
(***************************************************************************)
XfDone == xfPc = "done"

\* C10 (as claimed): whatever the shape of the raw event, no mapper raises:
\* processEvent never answers 'error' for an event it transformed.
C10_TransformNeverRaises == XfDone => xfOut.action # "error"

Invoked(method) == \E i \in 1..Len(xfOut.calls) : xfOut.calls[i] = method

\* C11: processEvent consults the ignore rules before anything else; an
\* event they match is answered 'ignore' without transform being invoked,
\* and transform is invoked only on events the ignore check let through.
C11_IgnoreBeforeTransform ==
    XfDone =>
        /\ xfOut.calls # <<>> => Head(xfOut.calls) = "isIgnored"
        /\ Invoked("transform") => ~isIgnored(EventData(xfIn))
        /\ (eventTransformers /\ isIgnored(EventData(xfIn))) =>
                (xfOut.action = "ignore" /\ xfOut.calls = <<"isIgnored">>)

C11_Witness ==
    /\ XfDone
    /\ isIgnored(EventData(xfIn))
    /\ xfOut.action = "ignore"
    /\ xfOut.calls = <<"isIgnored">>

\* The mapper chain of transform as a lookup: the status mapper's result,
\* else the chat mapper's, else the envelope itself.
FirstMapperResult(event) ==
    IF transformStatusEvent(event).tag # "null" THEN transformStatusEvent(event)
    ELSE IF transformChatMessage(event).tag # "null" THEN transformChatMessage(event)
    ELSE TSame(event)

\* C13 (as claimed): every event that no ignore rule matches comes out of
\* transform as a non-null result, the first mapper result of the chain or
\* the unchanged envelope, and goes on to be published: transform never
\* drops it.
C13_TransformNeverDrops ==
    (XfDone /\ eventTransformers /\ ~isIgnored(EventData(xfIn))) =>
        /\ xfOut.action = "publish"
        /\ xfOut.eventData = FirstMapperResult(EventData(xfIn))

\* The lifecycle vocabulary of durable content, by ack level
AckState(ack) ==
    CASE ack = "#1" -> "message_sent"
      [] ack = "#2" -> "message_delivered"
      [] ack = "#3" -> "message_read"
      [] ack = "#4" -> "message_played"
      [] OTHER -> "message_created"

\* The last raw event carries a durable message of a configured message type
DurableMessage ==
    /\ HasOriginal(EventData(xfIn))
    /\ ~isStatusEvent(EventData(xfIn))
    /\ Original(EventData(xfIn)).type \in MessageTypes

\* processEvent produced a normalized event for the last raw event
Normalized == XfDone /\ xfOut.action = "publish" /\ xfOut.eventData.tag = "event"

\* C15 (as claimed): the type of the normalized event of a durable message of
\* any configured message type is the lifecycle state of its ack level.
C15_AckAloneDecides ==
    (Normalized /\ DurableMessage) =>
        xfOut.eventData.data.type = AckState(Original(EventData(xfIn)).ack)

\* The sub-type dispatch reclassifies the last raw event
Reclassified ==
    \/ Original(EventData(xfIn)).type = "revoked"
    \/ /\ Original(EventData(xfIn)).type = "notification_template"
       /\ Original(EventData(xfIn)).raw_subtype = "disappearing_mode"

\* C15 (amended): whenever a durable message of a configured message type
\* yields a normalized event, the event's type is the lifecycle state of the
\* ack level (1 sent, 2 delivered, 3 read, 4 played, else created), except
\* that a revocation is message_revoked and a disappearing_mode template
\* notification is disappearing_mode_changed whatever the ack level; the only
\* other outcome for such a message is the 'error' answer of a mapper that
\* raised.
C15_AckDecidesUnlessReclassified ==
    (XfDone /\ eventTransformers /\ DurableMessage) =>
        /\ xfOut.action \in {"publish", "error"}
        /\ xfOut.action = "publish" =>
              /\ xfOut.eventData.tag = "event"
              /\ xfOut.eventData.data.type =
                    IF Original(EventData(xfIn)).type = "revoked"
                    THEN "message_revoked"
                    ELSE IF Reclassified THEN "disappearing_mode_changed"
                    ELSE AckState(Original(EventData(xfIn)).ack)

C15_Witness ==
    /\ Normalized
    /\ DurableMessage
    /\ Original(EventData(xfIn)).type = "chat"
    /\ Original(EventData(xfIn)).ack = "#4"
    /\ xfOut.eventData.data.type = "message_played"

\* The last raw event carries a durable template notification
TemplateNotification ==
    DurableMessage /\ Original(EventData(xfIn)).type = "notification_template"

\* C16 (as claimed): a template notification with sub-type disappearing_mode
\* yields a normalized event of type disappearing_mode_changed carrying the
\* raw record's duration; with any other sub-type it yields a normalized
\* event of the ack-derived type carrying the raw sub-type as
\* notification_type, 'unknown' when there is none.
C16_TemplateNotification ==
    (XfDone /\ eventTransformers /\ TemplateNotification) =>
        /\ Normalized
        /\ IF Original(EventData(xfIn)).raw_subtype = "disappearing_mode"
           THEN /\ xfOut.eventData.data.type = "disappearing_mode_changed"
                /\ xfOut.eventData.data.ephemeral_duration =
                      IF Original(EventData(xfIn)).raw_ephemeralDuration = Undef
                      THEN NullV
                      ELSE Original(EventData(xfIn)).raw_ephemeralDuration
           ELSE /\ xfOut.eventData.data.type = AckState(Original(EventData(xfIn)).ack)
                /\ xfOut.eventData.data.notification_type =
                      IF Original(EventData(xfIn)).raw_subtype = Undef
                      THEN "unknown"
                      ELSE Original(EventData(xfIn)).raw_subtype

(***************************************************************************)
(* StatsCollector (part_000)                                               *)
(***************************************************************************)
\* byType[eventType] || 0; the property key of a missing type is "undefined"
ByTypeGet(byType, eventType) ==
    IF eventType \in DOMAIN byType THEN byType[eventType] ELSE 0

\* part_000 49-64
updateEventStats(es, eventType, action) ==
    LET k == ToStr(eventType) IN
    [es EXCEPT
        !.total = @ + 1,
        !.byType = [t \in DOMAIN es.byType \cup {k} |->
                        IF t = k THEN ByTypeGet(es.byType, k) + 1 ELSE es.byType[t]],
        !.errors = IF action = "error" THEN @ + 1 ELSE @,
        !.filtered = IF action = "filtered" THEN @ + 1 ELSE @,
        !.ignored = IF action = "ignored" THEN @ + 1 ELSE @]

\* config.nats of config/config.json: the four routing subjects
NatsConfig ==
    [subject |-> "whatsapp.events", contactSubject |-> "whatsapp.contacts",
     ignoredSubject |-> "whatsapp.ignored", precenseSubject |-> "whatsapp.presence"]

\* part_000 69-84
updateMessageStats(ms, subject, success) ==
    IF ~success THEN [ms EXCEPT !.errors = @ + 1]
    ELSE IF subject = NatsConfig.subject THEN [ms EXCEPT !.mainSubject = @ + 1]
    ELSE IF subject = NatsConfig.contactSubject THEN [ms EXCEPT !.contactSubject = @ + 1]
    ELSE IF subject = NatsConfig.ignoredSubject THEN [ms EXCEPT !.ignoredSubject = @ + 1]
    ELSE IF subject = NatsConfig.precenseSubject THEN [ms EXCEPT !.presenceSubject = @ + 1]
    ELSE ms

RECURSIVE SumSeq(_)
SumSeq(q) == IF q = <<>> THEN 0 ELSE Head(q) + SumSeq(Tail(q))

\* Variant: a full window keeps its oldest sample and drops the next one
recordProcessingTime_KeepOldest(ps, timeMs) ==
    LET pushed == Append(ps.eventProcessingTimes, timeMs)
        times == IF Len(pushed) > MaxSamples
                 THEN <<Head(pushed)>> \o Tail(Tail(pushed))
                 ELSE pushed
    IN  [eventProcessingTimes |-> times,
         maxProcessingTime |-> IF timeMs > ps.maxProcessingTime THEN timeMs
                               ELSE ps.maxProcessingTime,
         minIsInfinity |-> FALSE,
         minProcessingTime |-> IF ps.minIsInfinity \/ timeMs < ps.minProcessingTime
                               THEN timeMs ELSE ps.minProcessingTime,
         averageSum |-> SumSeq(times),
         averageCount |-> Len(times)]

\* part_000 89-104
recordProcessingTime(ps, timeMs) ==
    LET pushed == Append(ps.eventProcessingTimes, timeMs)
        times == IF Len(pushed) > MaxSamples THEN Tail(pushed) ELSE pushed
    IN  [eventProcessingTimes |-> times,
         maxProcessingTime |-> IF timeMs > ps.maxProcessingTime THEN timeMs
                               ELSE ps.maxProcessingTime,
         minIsInfinity |-> FALSE,
         minProcessingTime |-> IF ps.minIsInfinity \/ timeMs < ps.minProcessingTime
                               THEN timeMs ELSE ps.minProcessingTime,
         averageSum |-> SumSeq(times),
         averageCount |-> Len(times)]

(***************************************************************************)
(* NATSManager (EventProcessor.js 162-336)                                 *)
(***************************************************************************)
\* Variant: the initial contact list is not a contact category
isContactEvent_NoInitial(eventType) ==
    eventType \in {"contact_add", "contact_change", "contact_remove"}

\* EventProcessor.js 248-256
isContactEvent(eventType) ==
    eventType \in {"contact_add", "contact_change", "contact_remove", "contacts_initial"}

\* EventProcessor.js 261-269
isPresenceEvent(eventType) ==
    eventType \in {"presence_add", "presence_change", "presence_remove", "presence_initial"}

\* EventProcessor.js 230-243
determineSubject(eventType) ==
    IF isContactEvent(eventType) THEN NatsConfig.contactSubject
    ELSE IF isPresenceEvent(eventType)
         THEN Or(NatsConfig.precenseSubject, "whatsapp.precense")
    ELSE NatsConfig.subject

(***************************************************************************)
(* Errors a poll can end with.  A message is the sequence of its words;    *)
(* String.includes is the search for a contiguous run of words.            *)
(***************************************************************************)
Includes(message, needle) ==
    \E i \in 1..(Len(message) - Len(needle) + 1) :
        SubSeq(message, i, i + Len(needle) - 1) = needle

SessionClosedMsg ==
    <<"Protocol", "error", "(Runtime.callFunctionOn):", "Session", "closed", ".",
      "Most", "likely", "the", "page", "has", "been", "closed", ".">>
TargetClosedMsg == <<"Protocol", "error", "(Runtime.callFunctionOn):", "Target", "closed">>
DetachedFrameMsg == <<"Attempted", "to", "use", "detached", "Frame", "'F1'">>
ContextDestroyedMsg ==
    <<"Execution", "context", "was", "destroyed,", "most", "likely", "because", "of",
      "a", "navigation", ".">>
FrameDetachedMsg == <<"Navigating", "frame", "was", "detached">>
SessionTimeoutMsg == <<"Session", "timed", "out;", "closed", "by", "peer">>
NullEventMsg ==
    <<"Cannot", "read", "properties", "of", "null", "(reading", "'type')">>

\* what page.evaluate can reject with
EvaluateErrors ==
    {SessionClosedMsg, TargetClosedMsg, DetachedFrameMsg, ContextDestroyedMsg,
     FrameDetachedMsg, SessionTimeoutMsg}

\* index.js 116-118: the three indicators of a lost browser session
FatalIndicators == {<<"Session", "closed">>, <<"detached", "Frame">>, <<"Protocol", "error">>}

\* Variant that knows a single indicator
IsFatal_SessionOnly(message) ==
    Includes(message, <<"Session", "closed">>)

\* index.js 116-118
IsFatal(message) ==
    \/ Includes(message, <<"Session", "closed">>)
    \/ Includes(message, <<"detached", "Frame">>)
    \/ Includes(message, <<"Protocol", "error">>)

(***************************************************************************)
(* The bridge (index.js) with its BrowserManager                           *)
(***************************************************************************)
dedupRest == <<filter, tick, processedMessages, seen, lastAccepted, lastCall>>
xfRest == <<xfPc, xfIn, xfOut>>
statsVars == <<eventStats, messageStats, performanceStats>>

Loops == 1..MaxLoops

\* Date.now() - startTime of one processEvent call, in milliseconds
ProcessingTimes == {3}

\* Records the page leaves in window.whatsappEvents.  seq numbers them in
\* capture order; isNull marks an entry that is null instead of an object.
QueuedKinds == {"chat", "stale", "null"}

QueuedEvent(kind) ==
    CASE kind = "chat" -> RawEvent("message_create", TRUE, BaseMsg)
      [] kind = "stale" -> RawEvent("message_create", TRUE, [BaseMsg EXCEPT !.timestamp = "yesterday"])
      [] OTHER -> RawEvent(Undef, FALSE, EmptyMsg)

Queued(seq, kind) == [seq |-> seq, isNull |-> kind = "null", ev |-> QueuedEvent(kind)]

\* The page queues a record.
PageQueues(kind) ==
    /\ menu # "exited"
    /\ pageAlive
    /\ nCaptured < MaxEvents
    /\ nCaptured' = nCaptured + 1
    /\ whatsappEvents' = Append(whatsappEvents, Queued(nCaptured', kind))
    /\ UNCHANGED <<isRunning, bmRunning, bmBrowser, natsConnected, menu, loops, nLoops,
                   statsVars, pageAlive, closePending, published,
                   eventTransformers, dedupRest, xfRest>>

\* The browser or its page goes away (crash, window closed by the user).
PageDies ==
    /\ menu # "exited"
    /\ pageAlive
    /\ pageAlive' = FALSE
    /\ closePending' = TRUE
    /\ whatsappEvents' = <<>>
    /\ UNCHANGED <<isRunning, bmRunning, bmBrowser, natsConnected, menu, loops, nLoops,
                   statsVars, nCaptured, published,
                   eventTransformers, dedupRest, xfRest>>

\* History of a run: once isRunning has been set to false, every polling
\* loop created so far belongs to a run that was stopped (halted).
Observe(ls, running) ==
    [l \in Loops |->
        IF ~running /\ ls[l].pc # "unused" THEN [ls[l] EXCEPT !.halted = TRUE] ELSE ls[l]]

\* BrowserManager.handleBrowserClose, run by the 'disconnected' / 'close' /
\* 'error' handlers, with the bridge's callback (index.js 30-32, 214-219)
BM_handleBrowserClose ==
    /\ menu # "exited"
    /\ closePending
    /\ closePending' = FALSE
    /\ IF bmRunning
       THEN /\ bmRunning' = FALSE
            /\ bmBrowser' = FALSE
            /\ isRunning' = FALSE
       ELSE UNCHANGED <<bmRunning, bmBrowser, isRunning>>
    /\ loops' = Observe(loops, isRunning')
    /\ UNCHANGED <<natsConnected, menu, nLoops, statsVars, pageAlive, nCaptured,
                   published, whatsappEvents, eventTransformers, dedupRest, xfRest>>

\* Menu option 1: BrowserManager.launch succeeds (a failed launch changes
\* nothing).  Followed here when no live page is held.
launch ==
    /\ menu = "idle"
    /\ ~pageAlive
    /\ bmBrowser' = TRUE
    /\ pageAlive' = TRUE
    /\ closePending' = FALSE
    /\ whatsappEvents' = <<>>
    /\ UNCHANGED <<isRunning, bmRunning, natsConnected, menu, loops, nLoops, statsVars,
                   nCaptured, published, eventTransformers, dedupRest, xfRest>>

\* index.js 88-144: startEventPolling creates a closure with its own
\* pollingRetries and runs its first tick, which passes the isRunning test
\* and calls isAlive.
startEventPolling(ls, l) ==
    [ls EXCEPT ![l] = [NoLoop EXCEPT !.pc = "probe"]]

\* Menu option 2: handleMenuChoice('2') and startBridge.  outcome is what
\* connect, waitForAuthentication and injectEventListeners met.
StartOutcomes == {"connect_failed", "auth_failed", "inject_failed", "injected"}

startBridge(outcome) ==
    /\ menu = "idle"
    /\ bmBrowser
    /\ nLoops < MaxLoops
    /\ outcome \in {"inject_failed", "injected"} => pageAlive
    /\ natsConnected' = (natsConnected \/ outcome # "connect_failed")
    /\ IF outcome \in {"connect_failed", "auth_failed"}
       THEN /\ isRunning' = FALSE
            /\ loops' = Observe(loops, FALSE)
            /\ UNCHANGED <<bmRunning, nLoops, whatsappEvents>>
       ELSE /\ whatsappEvents' = <<>>
            /\ isRunning' = TRUE
            /\ bmRunning' = TRUE
            /\ nLoops' = nLoops + 1
            /\ loops' = startEventPolling(loops, nLoops')
    /\ UNCHANGED <<bmBrowser, menu, statsVars, pageAlive, closePending, nCaptured,
                   published, eventTransformers, dedupRest, xfRest>>

\* ---- one tick of a polling loop (the pollEvents closure, index.js 91-141)

\* Variant of the end of a tick that schedules no next tick
TickDone_Once(lp, running) ==
    [lp EXCEPT !.pollingRetries = 0, !.polls = 0, !.retries = 0, !.batch = <<>>,
               !.captureErrors = 0,
               !.pc = "stopped",
               !.reason = "not_running"]

\* index.js 111 and 138-140: the try block finished; the counter is cleared
\* and the next tick is scheduled if the bridge still runs.
TickDone(lp, running) ==
    [lp EXCEPT !.pollingRetries = 0, !.polls = 0, !.retries = 0, !.batch = <<>>,
               !.captureErrors = 0,
               !.pc = IF running THEN "timer" ELSE "stopped",
               !.reason = IF running THEN @ ELSE "not_running"]

\* Variant of the catch block that stops only after the maximum is exceeded
TickFailed_StopAfter(lp, message) ==
    LET n == lp.pollingRetries + 1 IN
    IF IsFatal(message)
    THEN [lp EXCEPT !.pollingRetries = n, !.batch = <<>>,
                    !.pc = "stopped", !.reason = "fatal"]
    ELSE IF n > MaxRetries
    THEN [lp EXCEPT !.pollingRetries = n, !.batch = <<>>,
                    !.pc = "stopped", !.reason = "max_retries"]
    ELSE [lp EXCEPT !.pollingRetries = n, !.batch = <<>>,
                    !.pc = "retry", !.retries = @ + 1]

\* index.js 112-135: the catch block, for an error with the given message
TickFailed(lp, message) ==
    LET n == lp.pollingRetries + 1 IN
    IF IsFatal(message)
    THEN [lp EXCEPT !.pollingRetries = n, !.batch = <<>>,
                    !.pc = "stopped", !.reason = "fatal"]
    ELSE IF n >= MaxRetries
    THEN [lp EXCEPT !.pollingRetries = n, !.batch = <<>>,
                    !.pc = "stopped", !.reason = "max_retries"]
    ELSE [lp EXCEPT !.pollingRetries = n, !.batch = <<>>,
                    !.pc = "retry", !.retries = @ + 1]

\* Variant of the tick without the isRunning test of its first line
TimerFires_NoGuard(l) ==
    /\ menu # "exited"
    /\ loops[l].pc \in {"timer", "retry"}
    /\ loops' = [loops EXCEPT ![l] = [@ EXCEPT !.pc = "probe"]]
    /\ UNCHANGED <<isRunning, bmRunning, bmBrowser, natsConnected, menu, nLoops, statsVars,
                   pageAlive, closePending, nCaptured, published,
                   whatsappEvents, eventTransformers, dedupRest, xfRest>>

\* A timer set by setTimeout(pollEvents, ...) fires: index.js 92, then the
\* call of isAlive.
TimerFires(l) ==
    /\ menu # "exited"
    /\ loops[l].pc \in {"timer", "retry"}
    /\ loops' = [loops EXCEPT ![l] =
                    IF isRunning
                    THEN [@ EXCEPT !.pc = "probe"]
                    ELSE [@ EXCEPT !.pc = "stopped", !.reason = "not_running"]]
    /\ UNCHANGED <<isRunning, bmRunning, bmBrowser, natsConnected, menu, nLoops, statsVars,
                   pageAlive, closePending, nCaptured, published,
                   whatsappEvents, eventTransformers, dedupRest, xfRest>>

\* Variant of the tick that polls whatever isAlive answered
ProbeReturns_PollAnyway(l) ==
    /\ menu # "exited"
    /\ loops[l].pc = "probe"
    /\ loops' = [loops EXCEPT ![l].pc = "poll", ![l].polls = @ + 1]
    /\ UNCHANGED <<isRunning, bmRunning, bmBrowser, natsConnected, menu, nLoops, statsVars,
                   pageAlive, closePending, nCaptured, published,
                   whatsappEvents, eventTransformers, dedupRest, xfRest>>

\* isAlive answers (BrowserManager.js 189-203, index.js 95-100); when it
\* answers true the tick calls pollEvents.
ProbeReturns(l) ==
    /\ menu # "exited"
    /\ loops[l].pc = "probe"
    /\ IF bmBrowser /\ pageAlive
       THEN /\ loops' = [loops EXCEPT ![l].pc = "poll", ![l].polls = @ + 1]
            /\ UNCHANGED isRunning
       ELSE /\ loops' = Observe([loops EXCEPT ![l].pc = "stopped",
                                                ![l].reason = "not_alive"], FALSE)
            /\ isRunning' = FALSE
    /\ UNCHANGED <<bmRunning, bmBrowser, natsConnected, menu, nLoops, statsVars,
                   pageAlive, closePending, nCaptured, published,
                   whatsappEvents, eventTransformers, dedupRest, xfRest>>

\* Variant: the poll returns the queue and leaves it as it is
PollReturns_KeepQueue(l) ==
    /\ menu # "exited"
    /\ loops[l].pc = "poll"
    /\ pageAlive
    /\ loops' = [loops EXCEPT ![l] =
                    IF whatsappEvents = <<>>
                    THEN TickDone(@, isRunning)
                    ELSE [@ EXCEPT !.pc = "batch", !.batch = whatsappEvents]]
    /\ UNCHANGED <<isRunning, bmRunning, bmBrowser, natsConnected, menu, nLoops, statsVars,
                   pageAlive, closePending, nCaptured, published, whatsappEvents,
                   eventTransformers, dedupRest, xfRest>>

\* BrowserManager.pollEvents resolves with the drained queue
\* (BrowserManager.js 173-184); an empty batch ends the tick at once.
PollReturns(l) ==
    /\ menu # "exited"
    /\ loops[l].pc = "poll"
    /\ pageAlive
    /\ whatsappEvents' = <<>>
    /\ loops' = [loops EXCEPT ![l] =
                    IF whatsappEvents = <<>>
                    THEN TickDone(@, isRunning)
                    ELSE [@ EXCEPT !.pc = "batch", !.batch = whatsappEvents]]
    /\ UNCHANGED <<isRunning, bmRunning, bmBrowser, natsConnected, menu, nLoops, statsVars,
                   pageAlive, closePending, nCaptured, published,
                   eventTransformers, dedupRest, xfRest>>

\* BrowserManager.pollEvents rejects with the given message
PollRejects(l, message) ==
    /\ menu # "exited"
    /\ loops[l].pc = "poll"
    /\ isRunning' = (isRunning /\ TickFailed(loops[l], message).pc # "stopped")
    /\ loops' = Observe([loops EXCEPT ![l] =
                            [TickFailed(@, message) EXCEPT !.captureErrors = @ + 1]],
                        isRunning')
    /\ UNCHANGED <<bmRunning, bmBrowser, natsConnected, menu, nLoops, statsVars,
                   pageAlive, closePending, nCaptured, published,
                   whatsappEvents, eventTransformers, dedupRest, xfRest>>

\* ---- index.js 149-209: processEvent for one record of the batch

\* One call of a NATSManager publish method: the subject it published to
\* ("" when it raised before publishing) and whether the broker took it.
NatsCall(method, subject, payload, ok) ==
    [method |-> method, subject |-> subject, payload |-> payload, ok |-> ok]

\* What the broker received: the record's capture number, the subject, the
\* category it was routed by and the payload.
Delivery(event, method, subject, eventType, payload) ==
    [seq |-> event.seq, via |-> method, subject |-> subject, eventType |-> eventType,
     payload |-> payload]

\* Variant of the switch that sends ignored events through publishEvent
handleResult_IgnoredAsEvent(event, result, connected, pubOk, timeMs, es1, ms, ps, pub) ==
    CASE result.action \in {"publish", "ignore"} /\ ~(connected /\ pubOk) ->
            [escaped |-> FALSE, es |-> updateEventStats(es1, event.ev.type, "error"),
             ms |-> ms, ps |-> recordProcessingTime(ps, timeMs), pub |-> pub,
             action |-> result.action, calls |-> result.calls,
             nats |-> <<NatsCall("publishEvent",
                                 IF connected THEN determineSubject(result.eventType) ELSE "",
                                 result.eventData, FALSE)>>]
      [] result.action \in {"publish", "ignore"} /\ connected /\ pubOk ->
            [escaped |-> FALSE,
             es |-> IF result.action = "ignore"
                    THEN updateEventStats(es1, result.eventType, "ignored") ELSE es1,
             ms |-> updateMessageStats(ms, determineSubject(result.eventType), TRUE),
             ps |-> recordProcessingTime(ps, timeMs),
             pub |-> Append(pub, Delivery(event, "publishEvent", determineSubject(result.eventType),
                                          result.eventType, result.eventData)),
             action |-> result.action, calls |-> result.calls,
             nats |-> <<NatsCall("publishEvent", determineSubject(result.eventType),
                                 result.eventData, TRUE)>>]
      [] result.action = "filter" ->
            [escaped |-> FALSE, es |-> updateEventStats(es1, result.eventType, "filtered"),
             ms |-> ms, ps |-> recordProcessingTime(ps, timeMs), pub |-> pub,
             action |-> result.action, calls |-> result.calls, nats |-> <<>>]
      [] result.action = "error" ->
            [escaped |-> FALSE, es |-> updateEventStats(es1, result.eventType, "error"),
             ms |-> ms, ps |-> recordProcessingTime(ps, timeMs), pub |-> pub,
             action |-> result.action, calls |-> result.calls, nats |-> <<>>]
      [] OTHER ->
            [escaped |-> FALSE, es |-> es1,
             ms |-> ms, ps |-> recordProcessingTime(ps, timeMs), pub |-> pub,
             action |-> result.action, calls |-> result.calls, nats |-> <<>>]

\* index.js 158-195 and 201-203: the switch on the processor's result, with
\* the catch block for a publish that raises.
\* pubOk: connection.publish accepts the message.
handleResult(event, result, connected, pubOk, timeMs, es1, ms, ps, pub) ==
    CASE result.action = "publish" /\ ~(connected /\ pubOk) ->
            [escaped |-> FALSE, es |-> updateEventStats(es1, event.ev.type, "error"),
             ms |-> ms, ps |-> recordProcessingTime(ps, timeMs), pub |-> pub,
             action |-> result.action, calls |-> result.calls,
             nats |-> <<NatsCall("publishEvent",
                                 IF connected THEN determineSubject(result.eventType) ELSE "",
                                 result.eventData, FALSE)>>]
      [] result.action = "ignore" /\ ~(connected /\ pubOk) ->
            [escaped |-> FALSE, es |-> updateEventStats(es1, event.ev.type, "error"),
             ms |-> ms, ps |-> recordProcessingTime(ps, timeMs), pub |-> pub,
             action |-> result.action, calls |-> result.calls,
             nats |-> <<NatsCall("publishIgnoredEvent",
                                 IF connected THEN NatsConfig.ignoredSubject ELSE "",
                                 result.eventData, FALSE)>>]
      [] result.action = "publish" /\ connected /\ pubOk ->
            [escaped |-> FALSE, es |-> es1,
             ms |-> updateMessageStats(ms, determineSubject(result.eventType), TRUE),
             ps |-> recordProcessingTime(ps, timeMs),
             pub |-> Append(pub, Delivery(event, "publishEvent", determineSubject(result.eventType),
                                          result.eventType, result.eventData)),
             action |-> result.action, calls |-> result.calls,
             nats |-> <<NatsCall("publishEvent", determineSubject(result.eventType),
                                 result.eventData, TRUE)>>]
      [] result.action = "ignore" /\ connected /\ pubOk ->
            [escaped |-> FALSE, es |-> updateEventStats(es1, result.eventType, "ignored"),
             ms |-> updateMessageStats(ms, NatsConfig.ignoredSubject, TRUE),
             ps |-> recordProcessingTime(ps, timeMs),
             pub |-> Append(pub, Delivery(event, "publishIgnoredEvent", NatsConfig.ignoredSubject,
                                          result.eventType, result.eventData)),
             action |-> result.action, calls |-> result.calls,
             nats |-> <<NatsCall("publishIgnoredEvent", NatsConfig.ignoredSubject,
                                 result.eventData, TRUE)>>]
      [] result.action = "filter" ->
            [escaped |-> FALSE, es |-> updateEventStats(es1, result.eventType, "filtered"),
             ms |-> ms, ps |-> recordProcessingTime(ps, timeMs), pub |-> pub,
             action |-> result.action, calls |-> result.calls, nats |-> <<>>]
      [] result.action = "error" ->
            [escaped |-> FALSE, es |-> updateEventStats(es1, result.eventType, "error"),
             ms |-> ms, ps |-> recordProcessingTime(ps, timeMs), pub |-> pub,
             action |-> result.action, calls |-> result.calls, nats |-> <<>>]
      [] OTHER ->
            [escaped |-> FALSE, es |-> es1,
             ms |-> ms, ps |-> recordProcessingTime(ps, timeMs), pub |-> pub,
             action |-> result.action, calls |-> result.calls, nats |-> <<>>]

\* Variant: the result of the processor is handled a second time
processEvent_HandledTwice(event, loaded, connected, pubOk, timeMs, es, ms, ps, pub) ==
    IF event.isNull
    THEN [escaped |-> TRUE, es |-> es, ms |-> ms,
          ps |-> recordProcessingTime(ps, timeMs), pub |-> pub,
          action |-> "none", calls |-> <<>>, nats |-> <<>>]
    ELSE LET first == handleResult(event, EP_processEvent(event.ev, loaded), connected, pubOk,
                                   timeMs, updateEventStats(es, event.ev.type, "processed"),
                                   ms, ps, pub)
             again == handleResult(event, EP_processEvent(event.ev, loaded), connected, pubOk,
                                   timeMs, first.es, first.ms, first.ps, first.pub)
         IN  [again EXCEPT !.nats = first.nats \o again.nats]

\* What one processEvent call does to the statistics and the broker.
\* escaped: the call rejected (the error left processEvent).
processEvent(event, loaded, connected, pubOk, timeMs, es, ms, ps, pub) ==
    IF event.isNull
    THEN \* event.type raises in the try block and again in the catch block
         [escaped |-> TRUE, es |-> es, ms |-> ms,
          ps |-> recordProcessingTime(ps, timeMs), pub |-> pub,
          action |-> "none", calls |-> <<>>, nats |-> <<>>]
    ELSE handleResult(event, EP_processEvent(event.ev, loaded), connected, pubOk, timeMs,
                      updateEventStats(es, event.ev.type, "processed"), ms, ps, pub)

\* Variant: a load that failed is not attempted again
ProcessNext_NoReload(l, loadOk, pubOk, timeMs) ==
    /\ menu # "exited"
    /\ loops[l].pc = "batch"
    /\ eventTransformers' = eventTransformers
    /\ \E r \in {processEvent(Head(loops[l].batch), eventTransformers', natsConnected,
                              pubOk, timeMs, eventStats, messageStats, performanceStats,
                              published)} :
           /\ eventStats' = r.es
           /\ messageStats' = r.ms
           /\ performanceStats' = r.ps
           /\ published' = r.pub
           /\ \E lp \in {IF r.escaped THEN TickFailed(loops[l], NullEventMsg)
                          ELSE IF Tail(loops[l].batch) = <<>> THEN TickDone(loops[l], isRunning)
                          ELSE [loops[l] EXCEPT !.batch = Tail(@)]} :
                 /\ isRunning' = (isRunning /\ lp.pc # "stopped")
                 /\ loops' = Observe([loops EXCEPT ![l] = lp], isRunning')
    /\ UNCHANGED <<bmRunning, bmBrowser, natsConnected, menu, nLoops,
                   pageAlive, closePending, nCaptured,
                   whatsappEvents, dedupRest, xfRest>>

\* The loop takes the next record of its batch (index.js 107-109); after
\* the last one the tick ends (index.js 111, 138-140).  An error that leaves
\* processEvent lands in the catch block of the tick (index.js 112-135).
ProcessNext(l, loadOk, pubOk, timeMs) ==
    /\ menu # "exited"
    /\ loops[l].pc = "batch"
    /\ eventTransformers' = (eventTransformers \/ (loadOk /\ ~Head(loops[l].batch).isNull))
    /\ \E r \in {processEvent(Head(loops[l].batch), eventTransformers', natsConnected,
                              pubOk, timeMs, eventStats, messageStats, performanceStats,
                              published)} :
           /\ eventStats' = r.es
           /\ messageStats' = r.ms
           /\ performanceStats' = r.ps
           /\ published' = r.pub
           /\ \E lp \in {IF r.escaped THEN TickFailed(loops[l], NullEventMsg)
                          ELSE IF Tail(loops[l].batch) = <<>> THEN TickDone(loops[l], isRunning)
                          ELSE [loops[l] EXCEPT !.batch = Tail(@)]} :
                 /\ isRunning' = (isRunning /\ lp.pc # "stopped")
                 /\ loops' = Observe([loops EXCEPT ![l] = lp], isRunning')
    /\ UNCHANGED <<bmRunning, bmBrowser, natsConnected, menu, nLoops,
                   pageAlive, closePending, nCaptured,
                   whatsappEvents, dedupRest, xfRest>>

\* ---- index.js 224-234, 273-276, 329-334: menu option 5 or SIGINT
stop ==
    /\ menu = "idle"
    /\ menu' = "stopping"
    /\ isRunning' = FALSE
    /\ loops' = Observe(loops, FALSE)
    /\ UNCHANGED <<bmRunning, bmBrowser, natsConnected, nLoops, statsVars,
                   pageAlive, closePending, nCaptured, published,
                   whatsappEvents, eventTransformers, dedupRest, xfRest>>

\* natsManager.close and browserManager.close have completed; process.exit
exit ==
    /\ menu = "stopping"
    /\ menu' = "exited"
    /\ natsConnected' = FALSE
    /\ bmBrowser' = FALSE
    /\ pageAlive' = FALSE
    /\ UNCHANGED <<isRunning, bmRunning, loops, nLoops, statsVars,
                   closePending, nCaptured, published,
                   whatsappEvents, eventTransformers, dedupRest, xfRest>>

InitSched == DedupIdle /\ XfIdle /\ SchedIdle

NextSched ==
    \/ \E kind \in QueuedKinds : PageQueues(kind)
    \/ PageDies
    \/ BM_handleBrowserClose
    \/ launch
    \/ \E outcome \in StartOutcomes : startBridge(outcome)
    \/ \E l \in Loops : TimerFires(l)
    \/ \E l \in Loops : ProbeReturns(l)
    \/ \E l \in Loops : PollReturns(l)
    \/ \E l \in Loops, message \in EvaluateErrors : PollRejects(l, message)
    \/ \E l \in Loops, loadOk \in BOOLEAN, pubOk \in BOOLEAN, timeMs \in ProcessingTimes :
            ProcessNext(l, loadOk, pubOk, timeMs)
    \/ stop
    \/ exit

SpecSched == InitSched /\ [][NextSched]_vars

(***************************************************************************)
(* Scheduler claims (SpecSched).  A polling loop is one pollEvents closure *)
(* with its own pollingRetries; polls and retries count its poll attempts  *)
(* and its scheduled retries since its counter was last cleared, and       *)
(* captureErrors the polls that failed since its last completed batch.     *)
(***************************************************************************)
StoppedLoopsStay == \A l \in Loops : loops[l].pc = "stopped" => loops'[l] = loops[l]

C5_State ==
    \A l \in Loops :
        /\ loops[l].pc = "retry" =>
                /\ loops[l].pollingRetries < MaxRetries
                /\ loops[l].polls = loops[l].pollingRetries
                /\ loops[l].retries = loops[l].pollingRetries
        /\ loops[l].reason = "max_retries" =>
                /\ loops[l].pc = "stopped"
                /\ loops[l].pollingRetries = MaxRetries
                /\ loops[l].polls = MaxRetries
                /\ loops[l].retries = MaxRetries - 1

\* C5: with max-retries = N, a polling loop that meets N consecutive
\* transient errors schedules N-1 retries and then stops: it made exactly N
\* poll attempts, a retry is only ever pending below N errors, and a stopped
\* loop never moves again.
C5_MaxRetriesStops == [](C5_State) /\ [][StoppedLoopsStay]_vars

C5_Witness ==
    \E l \in Loops :
        /\ loops[l].pc = "stopped"
        /\ loops[l].reason = "max_retries"
        /\ loops[l].polls = MaxRetries
        /\ loops[l].retries = MaxRetries - 1

HasIndicator(message) == \E needle \in FatalIndicators : Includes(message, needle)

C6_Step ==
    \A l \in Loops, message \in EvaluateErrors :
        PollRejects(l, message) =>
            IF HasIndicator(message)
            THEN /\ loops'[l].pc = "stopped"
                 /\ loops'[l].retries = loops[l].retries
                 /\ ~isRunning'
            ELSE \/ /\ loops'[l].pc = "retry"
                    /\ loops'[l].retries = loops[l].retries + 1
                 \/ /\ loops[l].pollingRetries + 1 >= MaxRetries
                    /\ loops'[l].pc = "stopped"

C6_StoppedIsFinal == \A l \in Loops : loops[l].pc = "stopped" => loops'[l].pc = "stopped"

\* C6: a poll error whose message holds 'Session closed', 'detached Frame'
\* or 'Protocol error' stops the polling loop at once, whatever its retry
\* counter: no retry is scheduled and the loop never polls again; an error
\* with none of them schedules a retry unless the counter has reached the
\* maximum.
C6_FatalStopsAtOnce == [][C6_Step /\ C6_StoppedIsFinal]_vars

\* a loop stopped by a fatal error right after a transient one was retried
C6_Witness ==
    \E l \in Loops :
        /\ loops[l].pc = "stopped"
        /\ loops[l].reason = "fatal"
        /\ loops[l].retries = 1
        /\ loops[l].pollingRetries = 2

ActiveLoops == {l \in Loops : loops[l].pc \in {"probe", "poll", "batch", "timer", "retry"}}

\* C7 (as claimed): at most one polling tick is in progress and at most one
\* next-tick timer is pending, whatever commands the operator gave.
C7_SingleTick == Cardinality(ActiveLoops) <= 1

\* C8 (as claimed): the broker receives the records in capture order.
C8_PublishOrder ==
    \A i, j \in 1..Len(published) : i < j => published[i].seq < published[j].seq

C9_Step ==
    \A l \in Loops :
        (loops[l].pc = "batch" /\ loops'[l].batch # loops[l].batch) =>
            /\ eventStats'.total > eventStats.total
            /\ loops'[l].pollingRetries <= loops[l].pollingRetries
            /\ loops'[l].pc \in {"batch", "timer", "stopped"}
            /\ Len(loops[l].batch) > 1 =>
                    (loops'[l].pc = "batch" /\ loops'[l].batch = Tail(loops[l].batch))
            /\ loops'[l].pc = "stopped" => loops'[l].reason = "not_running"
            /\ isRunning' = isRunning

\* C9 (as claimed): processing one record of a batch, whatever the record,
\* counts it, leaves the retry counter alone, keeps the rest of the batch
\* and never stops the bridge.
C9_EventErrorsStayLocal == [][C9_Step]_vars

C18_Step ==
    \A l \in Loops :
        loops[l].halted =>
            /\ loops[l].pc \in {"timer", "retry"} =>
                    loops'[l].pc \in {"timer", "retry", "stopped"}
            /\ loops[l].pc = "stopped" => loops'[l].pc = "stopped"

\* C18 (as claimed): once isRunning has been set to false, a polling loop
\* created before that never begins another tick: its pending interval or
\* retry timer can only end in the stopped state, without probe or poll, and
\* a stopped loop stays stopped, also when the bridge is started again.
C18_StoppedRunStaysStopped == [][C18_Step]_vars

\* What a loop is doing, apart from the history fields
Position(lp) == <<lp.pc, lp.batch, lp.pollingRetries, lp.reason>>

C19_StopStep ==
    (menu = "idle" /\ menu' = "stopping") =>
        /\ ~isRunning'
        /\ \A l \in Loops : Position(loops'[l]) = Position(loops[l])

C19_WhileStopping ==
    (menu = "stopping" /\ menu' = "stopping") =>
        \A l \in Loops :
            /\ (loops[l].pc \in {"timer", "retry"} /\ Position(loops'[l]) # Position(loops[l])) =>
                    (loops'[l].pc = "stopped" /\ loops'[l].reason = "not_running")
            /\ loops'[l].pc = "timer" => loops[l].pc = "timer"
            /\ (loops[l].pc = "batch" /\ loops'[l].batch # loops[l].batch
                    /\ ~Head(loops[l].batch).isNull) =>
                    /\ eventStats'.total > eventStats.total
                    /\ IF Len(loops[l].batch) > 1
                       THEN loops'[l].pc = "batch" /\ loops'[l].batch = Tail(loops[l].batch)
                       ELSE loops'[l].pc = "stopped" /\ loops'[l].reason = "not_running"

\* C19: the stop command only clears isRunning: it leaves every polling loop
\* where it is.  From then on a pending interval or retry timer that fires
\* ends its loop at once, without probe, poll or new timer, and no interval
\* timer is set any more; a tick that was in progress goes on record by
\* record (a null record apart, which ends any tick through the catch block)
\* and stops after the last one instead of rescheduling.
C19_StopIsCooperative == [][C19_StopStep /\ C19_WhileStopping]_vars

\* the one polling loop ended on the isRunning test after the stop command
C19_Witness ==
    /\ menu = "stopping"
    /\ nLoops = 1
    /\ bmRunning
    /\ loops[1].pc = "stopped"
    /\ loops[1].reason = "not_running"
    /\ published # <<>>

\* C20 (as claimed): the retry counter of a polling loop is the number of
\* polls that failed in a row since the last completed batch, so a loop that
\* stopped for max retries has had that many failed polls in a row.
C20_CountsCaptureFailures ==
    \A l \in Loops :
        /\ loops[l].pollingRetries = loops[l].captureErrors
        /\ loops[l].reason = "max_retries" => loops[l].captureErrors = MaxRetries

\* What isAlive answers in the current state (BrowserManager.js 189-203)
Healthy == bmBrowser /\ pageAlive

C21_Step ==
    \A l \in Loops :
        /\ (loops'[l].pc = "poll" /\ loops[l].pc # "poll") =>
                (loops[l].pc = "probe" /\ Healthy)
        /\ loops'[l].polls > loops[l].polls =>
                (loops[l].pc = "probe" /\ loops'[l].pc = "poll")
        /\ (loops[l].pc = "probe" /\ loops'[l].pc # "probe" /\ ~Healthy) =>
                /\ loops'[l].pc = "stopped"
                /\ loops'[l].reason = "not_alive"
                /\ loops'[l].retries = loops[l].retries
                /\ loops'[l].polls = loops[l].polls
                /\ ~isRunning'

\* C21: a polling loop calls pollEvents only from a tick whose isAlive probe
\* has just answered true; when the probe answers false the loop stops in
\* that step, with isRunning cleared, no poll made and no retry scheduled.
C21_ProbeBeforePoll == [][C21_Step]_vars

\* a loop whose probe found the page gone after one retry was scheduled
C21_Witness ==
    \E l \in Loops :
        /\ loops[l].pc = "stopped"
        /\ loops[l].reason = "not_alive"
        /\ loops[l].retries = 1
        /\ loops[l].polls = 1
        /\ ~isRunning

(***************************************************************************)
(* SpecPipeline: one bridge hands raw events to WhatsAppBridge.processEvent *)
(* one after another (index.js 149-209); nothing else runs in between.      *)
(* xfIn is the last raw event, xfOut what the call did with it.             *)
(***************************************************************************)
PipeMsgs ==
    {BaseMsg,
     [BaseMsg EXCEPT !.ack = "#2"],
     [BaseMsg EXCEPT !.timestamp = "yesterday"],
     [BaseMsg EXCEPT !.type = "image", !.id_remote_ser = "status@broadcast", !.ack = "#1"],
     [BaseMsg EXCEPT !.type = "image", !.id_remote_ser = "status@broadcast"],
     [BaseMsg EXCEPT !.type = "ciphertext", !.body = Undef],
     [BaseMsg EXCEPT !.type = "e2e_notification", !.raw_subtype = "encrypt", !.body = Undef],
     [BaseMsg EXCEPT !.type = "e2e_notification", !.raw_subtype = "leave", !.body = Undef],
     [BaseMsg EXCEPT !.type = "notification_template", !.raw_subtype = "disappearing_mode",
                     !.raw_ephemeralDuration = "#86400"]}

PipeRawEvents ==
    {RawEvent("message_create", TRUE, m) : m \in PipeMsgs}
    \cup {RawEvent(t, TRUE, EmptyMsg) :
            t \in {"contact_add", "contacts_initial", "presence_change", "connection_state"}}
    \cup {RawEvent("contact_change", TRUE, [BaseMsg EXCEPT !.type = "ciphertext"]),
          RawEvent("ciphertext", FALSE, EmptyMsg)}

\* What the last processEvent call did
PipeOutcome(r) == [action |-> r.action, calls |-> r.calls, nats |-> r.nats]

\* natsManager.connect succeeds (EventProcessor.js 173-195)
PipeConnect ==
    /\ ~natsConnected
    /\ natsConnected' = TRUE
    /\ UNCHANGED <<isRunning, bmRunning, bmBrowser, menu, loops, nLoops, statsVars,
                   pageAlive, closePending, nCaptured, published,
                   xfVars, dedupVars>>

\* One processEvent call on the raw event e.
PipeProcess(e, loadOk, pubOk, timeMs) ==
    /\ nCaptured < MaxEvents
    /\ nCaptured' = nCaptured + 1
    /\ eventTransformers' = (eventTransformers \/ loadOk)
    /\ \E r \in {processEvent([seq |-> nCaptured + 1, isNull |-> FALSE, ev |-> e],
                              eventTransformers', natsConnected, pubOk, timeMs,
                              eventStats, messageStats, performanceStats, published)} :
           /\ eventStats' = r.es
           /\ messageStats' = r.ms
           /\ performanceStats' = r.ps
           /\ published' = r.pub
           /\ xfOut' = PipeOutcome(r)
    /\ xfPc' = "done"
    /\ xfIn' = e
    /\ UNCHANGED <<isRunning, bmRunning, bmBrowser, natsConnected, menu, loops, nLoops,
                   pageAlive, closePending, dedupVars>>

InitPipeline == DedupIdle /\ XfIdle /\ SchedIdle

NextPipeline ==
    \/ PipeConnect
    \/ \E e \in PipeRawEvents, loadOk \in BOOLEAN, pubOk \in BOOLEAN,
          timeMs \in ProcessingTimes : PipeProcess(e, loadOk, pubOk, timeMs)

SpecPipeline == InitPipeline /\ [][NextPipeline]_vars

(***************************************************************************)
(* Pipeline claims (SpecPipeline)                                          *)
(***************************************************************************)
\* What the broker received for the last raw event
LastDeliveries ==
    {i \in 1..Len(published) : published[i].seq = nCaptured}

\* C12: with the ignore rules loaded, an event that matches one of them gets
\* the Ignored outcome and exactly one publish call, publishIgnoredEvent,
\* whose payload is the envelope {id, timestamp, data: rawEvent} with the raw
\* event as it was polled; when the broker takes it, that is the one message
\* delivered for the event and it is on the ignored subject; nothing goes to
\* the default, contact or presence subject.
C12_IgnoredRouting ==
    (XfDone /\ eventTransformers /\ isIgnored(EventData(xfIn))) =>
        /\ xfOut.action = "ignore"
        /\ Len(xfOut.nats) = 1
        /\ xfOut.nats[1].method = "publishIgnoredEvent"
        /\ xfOut.nats[1].payload = EventData(xfIn)
        /\ xfOut.nats[1].subject \in {NatsConfig.ignoredSubject, ""}
        /\ xfOut.nats[1].ok <=> xfOut.nats[1].subject = NatsConfig.ignoredSubject
                                    /\ Cardinality(LastDeliveries) = 1
        /\ \A i \in LastDeliveries :
              /\ published[i].subject = NatsConfig.ignoredSubject
              /\ published[i].payload = EventData(xfIn)

C12_Witness ==
    /\ XfDone
    /\ isIgnored(EventData(xfIn))
    /\ xfIn.type = "contact_change"
    /\ xfOut.action = "ignore"
    /\ Cardinality(LastDeliveries) = 1
    /\ \A i \in LastDeliveries : published[i].subject = NatsConfig.ignoredSubject

\* The last raw event is ephemeral (status) content whose ack level the
\* status table does not map
UnmappedStatus ==
    /\ isStatusEvent(EventData(xfIn))
    /\ ~Truthy(getEventTypeByAck(Original(EventData(xfIn)).ack, TRUE))

\* C14 (as claimed): status content with an ack level outside 1..3 yields no
\* event: no publish call is made for it and the broker receives nothing.
C14_UnmappedStatusYieldsNothing ==
    (XfDone /\ eventTransformers /\ UnmappedStatus /\ ~isIgnored(EventData(xfIn))) =>
        /\ xfOut.action \notin {"publish", "ignore"}
        /\ xfOut.nats = <<>>
        /\ LastDeliveries = {}

\* The destination table of the routing contract
Route(category) ==
    CASE category \in {"contact_add", "contact_change", "contact_remove", "contacts_initial"} ->
            NatsConfig.contactSubject
      [] category \in {"presence_add", "presence_change", "presence_remove",
                       "presence_initial"} ->
            NatsConfig.precenseSubject
      [] OTHER -> NatsConfig.subject

\* Messages the broker received through publishEvent
Routed == {i \in 1..Len(published) : published[i].via = "publishEvent"}

\* C17: every message published through publishEvent is on the subject the
\* table gives for its category (contact categories first, then presence
\* categories, else the default subject), so two messages of one category
\* are on one subject whatever was routed between them; the publish call of
\* the last event names that subject too.
C17_RoutingIsLookup ==
    /\ \A i \in Routed : published[i].subject = Route(published[i].eventType)
    /\ \A i, j \in Routed :
          published[i].eventType = published[j].eventType =>
              published[i].subject = published[j].subject
    /\ XfDone =>
          \A k \in 1..Len(xfOut.nats) :
              (xfOut.nats[k].method = "publishEvent" /\ xfOut.nats[k].subject # "") =>
                  xfOut.nats[k].subject = Route(xfIn.type)

C17_Witness ==
    /\ Len(published) = 2
    /\ Routed = {1, 2}
    /\ published[1].eventType = "presence_change"
    /\ published[1].subject = NatsConfig.precenseSubject
    /\ published[2].eventType = "contacts_initial"
    /\ published[2].subject = NatsConfig.contactSubject

\* One more raw event went through processEvent in this step
Fed == nCaptured' = nCaptured + 1

C28_Step ==
    Fed =>
        /\ eventStats'.total = eventStats.total + 1
        /\ \A t \in DOMAIN eventStats'.byType :
              ByTypeGet(eventStats'.byType, t) =
                  ByTypeGet(eventStats.byType, t) + (IF t = ToStr(xfIn'.type) THEN 1 ELSE 0)

\* C28: each raw event given to processEvent adds exactly one to the total
\* event count and one to the count of its own category, whatever its
\* outcome, so that the total is the number of raw events fed.
C28_OneCountPerRawEvent == [][C28_Step]_vars

\* The calls processEvent made on the NATS manager for the last raw event
LastCalls == xfOut.nats

\* C29: for one raw event processEvent calls the NATS manager at most once,
\* with one subject and one payload, and the broker receives at most one
\* message for it, the payload of that call on the subject of that call; it
\* makes no call when the event is filtered, skipped or the processor
\* reports an error, and nothing is delivered when the call fails.  (The
\* filter outcome needs transform to return null, which no mapper does: C14.)
C29_AtMostOnePublish ==
    XfDone =>
        /\ Len(LastCalls) <= 1
        /\ Cardinality(LastDeliveries) <= 1
        /\ \A i \in LastDeliveries :
              /\ LastCalls # <<>> /\ LastCalls[1].ok
              /\ published[i].subject = LastCalls[1].subject
              /\ published[i].payload = LastCalls[1].payload
        /\ (LastCalls # <<>> /\ LastCalls[1].ok) => LastDeliveries # {}
        /\ xfOut.action \in {"filter", "skip", "error"} => LastCalls = <<>>

\* two raw events went through: the first was published, the second was not
C29_Witness ==
    /\ XfDone /\ nCaptured = 2
    /\ Len(published) = 1 /\ published[1].seq = 1
    /\ xfOut.action \in {"filter", "skip", "error"}

(***************************************************************************)
(* SpecStats: the StatsCollector on its own (part_000), called in any      *)
(* order by its users while Date.now() advances.                           *)
(***************************************************************************)
StatsTypes == {"message_create", "contact_add"}
StatsActions == {"processed", "error", "filtered", "ignored"}
StatsSubjects ==
    {NatsConfig.subject, NatsConfig.contactSubject, NatsConfig.ignoredSubject,
     NatsConfig.precenseSubject, "whatsapp.other"}
StatsTimes == {1, 3}

bridgeRest ==
    <<isRunning, bmRunning, bmBrowser, natsConnected, menu, loops, nLoops,
      pageAlive, closePending, nCaptured, published>>
cacheRest == <<filter, processedMessages, seen, whatsappEvents, lastAccepted, lastCall>>

\* messages counted since the last reset, failed ones included
MessagesCounted(ms) ==
    ms.mainSubject + ms.contactSubject + ms.ignoredSubject + ms.presenceSubject + ms.errors

StatsUpdateEvent(eventType, action) ==
    /\ eventStats.total < MaxCalls
    /\ eventStats' = updateEventStats(eventStats, eventType, action)
    /\ UNCHANGED <<messageStats, performanceStats, tick, cacheRest, xfVars, bridgeRest>>

StatsUpdateMessage(subject, success) ==
    /\ MessagesCounted(messageStats) < MaxCalls
    /\ messageStats' = updateMessageStats(messageStats, subject, success)
    /\ UNCHANGED <<eventStats, performanceStats, tick, cacheRest, xfVars, bridgeRest>>

StatsRecord(timeMs) ==
    /\ performanceStats' = recordProcessingTime(performanceStats, timeMs)
    /\ UNCHANGED <<eventStats, messageStats, tick, cacheRest, xfVars, bridgeRest>>

\* Variant: the reset leaves the rate clock of the event counters running
resetStats_KeepClock ==
    /\ eventStats' = [NewEventStats EXCEPT !.lastReset = eventStats.lastReset]
    /\ messageStats' = NewMessageStats
    /\ performanceStats' = NewPerformanceStats
    /\ UNCHANGED <<tick, cacheRest, xfVars, bridgeRest>>

\* part_000 212-239
resetStats ==
    /\ eventStats' = NewEventStats
    /\ messageStats' = NewMessageStats
    /\ performanceStats' = NewPerformanceStats
    /\ UNCHANGED <<tick, cacheRest, xfVars, bridgeRest>>

\* Date.now() advances to the next instant.
StatsAdvance ==
    /\ tick < Len(Instants)
    /\ tick' = tick + 1
    /\ UNCHANGED <<statsVars, cacheRest, xfVars, bridgeRest>>

InitStats == DedupIdle /\ XfIdle /\ SchedIdle

NextStats ==
    \/ \E eventType \in StatsTypes, action \in StatsActions : StatsUpdateEvent(eventType, action)
    \/ \E subject \in StatsSubjects, success \in BOOLEAN : StatsUpdateMessage(subject, success)
    \/ \E timeMs \in StatsTimes : StatsRecord(timeMs)
    \/ resetStats
    \/ StatsAdvance

SpecStats == InitStats /\ [][NextStats]_vars

(***************************************************************************)
(* Statistics claims (SpecStats)                                           *)
(***************************************************************************)
Window == performanceStats.eventProcessingTimes

C25_Step ==
    Window' # Window =>
        \/ Window' = <<>>
        \/ /\ Window' # <<>>
           /\ SubSeq(Window', 1, Len(Window') - 1) =
                 IF Len(Window) = MaxSamples THEN Tail(Window) ELSE Window

\* C25: the sample window never holds more than the capacity (1000 in the
\* code); recording on a full window drops exactly the oldest sample and
\* appends the new one, the others keep their order; time plays no part.
C25_WindowIsFifo == [](Len(Window) <= MaxSamples) /\ [][C25_Step]_vars

\* a full window from which the sample 3, recorded since the last reset, has
\* been pushed out
C25_Witness ==
    /\ Len(Window) = MaxSamples
    /\ \A i \in 1..Len(Window) : Window[i] = 1
    /\ performanceStats.maxProcessingTime = 3

\* The samples currently held
Held == {Window[i] : i \in 1..Len(Window)}

\* C26 (as claimed): whenever the window holds samples, the reported
\* minimum and maximum are the smallest and the largest sample held and the
\* mean is their sum over their number.
C26_SummaryOfWindow ==
    Window # <<>> =>
        /\ ~performanceStats.minIsInfinity
        /\ performanceStats.minProcessingTime \in Held
        /\ \A t \in Held : performanceStats.minProcessingTime <= t
        /\ performanceStats.maxProcessingTime \in Held
        /\ \A t \in Held : t <= performanceStats.maxProcessingTime
        /\ performanceStats.averageSum = SumSeq(Window)
        /\ performanceStats.averageCount = Len(Window)

\* Everything the collector counts is zero, the window is empty and both
\* rate clocks read the given instant
AllZeroAt(es, ms, ps, t) ==
    /\ es.total = 0 /\ DOMAIN es.byType = {}
    /\ es.errors = 0 /\ es.filtered = 0 /\ es.ignored = 0
    /\ es.lastReset = t
    /\ ms.mainSubject = 0 /\ ms.contactSubject = 0 /\ ms.ignoredSubject = 0
    /\ ms.presenceSubject = 0 /\ ms.errors = 0
    /\ ms.lastReset = t
    /\ ps.eventProcessingTimes = <<>>
    /\ ps.averageSum = 0
    /\ ps.maxProcessingTime = 0
    /\ ps.minIsInfinity

\* No counter goes down and no rate clock moves
Accumulates ==
    /\ eventStats'.total >= eventStats.total
    /\ \A t \in DOMAIN eventStats.byType :
          t \in DOMAIN eventStats'.byType /\ eventStats'.byType[t] >= eventStats.byType[t]
    /\ eventStats'.errors >= eventStats.errors
    /\ eventStats'.filtered >= eventStats.filtered
    /\ eventStats'.ignored >= eventStats.ignored
    /\ eventStats'.lastReset = eventStats.lastReset
    /\ messageStats'.mainSubject >= messageStats.mainSubject
    /\ messageStats'.contactSubject >= messageStats.contactSubject
    /\ messageStats'.ignoredSubject >= messageStats.ignoredSubject
    /\ messageStats'.presenceSubject >= messageStats.presenceSubject
    /\ messageStats'.errors >= messageStats.errors
    /\ messageStats'.lastReset = messageStats.lastReset

C27_Step ==
    /\ resetStats => AllZeroAt(eventStats', messageStats', performanceStats', Now)
    /\ ~resetStats => Accumulates
    /\ tick' # tick => UNCHANGED statsVars

\* C27: resetStats leaves every counter at zero, the per-type table and the
\* sample window empty with their summary cleared, and both rate clocks at
\* the time of the reset; every other step leaves each counter where it was
\* or higher and the rate clocks alone, and the passing of time changes
\* nothing.
C27_ResetAndAccumulate == [][C27_Step]_vars

\* just reset, some time after construction
C27_Witness ==
    /\ tick > 1
    /\ AllZeroAt(eventStats, messageStats, performanceStats, Now)

(***************************************************************************)
(* SpecFeedback: what transform returned is handed to transform again      *)
(* (part_001 224-234).                                                     *)
(***************************************************************************)
\* The event transform returned, as the argument of a second call.  A built
\* event {internal_event_id, timestamp, data} has no id, and its data is the
\* mapper's field table: that has a type, and no data, subtype or __raw
\* property unless the table is itself a polled record.
FedBack(r) ==
    IF r.tag = "same" THEN r.event
    ELSE [id |-> Undef,
          internal_event_id |-> r.internal_event_id,
          timestamp |-> r.timestamp,
          data |-> [type |-> r.data.type,
                    hasData |-> IF "hasData" \in DOMAIN r.data THEN r.data.hasData ELSE FALSE,
                    msg |-> IF "msg" \in DOMAIN r.data THEN r.data.msg ELSE EmptyMsg,
                    fields |-> r.data]]

\* transform runs on the event the processor is about to publish.
XfAgain ==
    /\ xfPc = "done"
    /\ xfOut.action = "publish"
    /\ xfPc' = "again"
    /\ xfOut' = [action |-> "again", calls |-> <<"transform">>,
                 first |-> xfOut.eventData,
                 second |-> transform(FedBack(xfOut.eventData))]
    /\ UNCHANGED <<xfIn, eventTransformers, dedupVars, schedVars>>

\* The caller is done with the second result.
XfForget ==
    /\ xfPc = "again"
    /\ xfPc' = "idle"
    /\ xfIn' = NoRawEvent
    /\ xfOut' = NoResult
    /\ UNCHANGED <<eventTransformers, dedupVars, schedVars>>

InitFeedback == DedupIdle /\ XfIdle /\ SchedIdle

NextFeedback ==
    \/ \E e \in XfRawEvents : XfReceive(e)
    \/ \E loadOk \in BOOLEAN : XfProcess(loadOk)
    \/ XfRelease
    \/ XfAgain
    \/ XfForget

SpecFeedback == InitFeedback /\ [][NextFeedback]_vars

XfFedBack == xfPc = "again"

\* C30: transform, given an event it built or passed through, returns that
\* very event: the second call takes the fall-through path, so that for an
\* event no mapper matches transform(transform(e)) = transform(e).
C30_TransformIdempotent ==
    XfFedBack =>
        /\ xfOut.second = TSame(FedBack(xfOut.first))
        /\ xfOut.first.tag = "same" => xfOut.second = xfOut.first

\* a chat message was mapped and the built event was transformed again
C30_Witness ==
    /\ XfFedBack
    /\ xfOut.first.tag = "event"
    /\ xfOut.first.data.kind = "chat"
    /\ xfOut.second.tag = "same"

(***************************************************************************)
(* Ignore rules and group messages (SpecTransform)                         *)
(***************************************************************************)
\* What the ignore check reads of a raw event: the type of the message it
\* carries, or its own type when it carries none, and the message's subtype
\* or, failing that, its __raw.subtype.
Category(rawEvent) == IF rawEvent.hasData THEN rawEvent.msg.type ELSE rawEvent.type

Subcategory(rawEvent) ==
    IF ~rawEvent.hasData THEN Undef
    ELSE IF Truthy(rawEvent.msg.subtype) THEN rawEvent.msg.subtype
    ELSE rawEvent.msg.raw_subtype

MatchesRule(rawEvent, rule) ==
    /\ Category(rawEvent) = rule.type
    /\ \/ ~rule.hasSubtypes
       \/ Subcategory(rawEvent) \in rule.subtypes

\* C31: with the rules loaded, an event gets the ignore answer exactly when
\* some configured rule has its category and either has no subcategories or
\* lists the event's subcategory; an event whose category is that of a rule
\* with subcategories and whose subcategory is absent or not listed is not
\* ignored.
C31_IgnoredIffRuleMatches ==
    (XfDone /\ eventTransformers) =>
        /\ (xfOut.action = "ignore") <=> (\E rule \in IgnoredTypes : MatchesRule(xfIn, rule))
        /\ isIgnored(EventData(xfIn)) <=> (xfOut.action = "ignore")

\* an encryption notice (listed subcategory) was ignored
C31_Witness ==
    /\ XfDone /\ eventTransformers
    /\ xfIn.hasData /\ xfIn.msg.type = "e2e_notification"
    /\ xfIn.msg.subtype = Undef /\ xfIn.msg.raw_subtype = "encrypt"
    /\ xfOut.action = "ignore"

\* The message of the raw event in hand, and the data of the event built for it
Msg == xfIn.msg
Built == xfOut.eventData.data

\* processEvent answered with an event the chat mapper built
ChatBuilt ==
    /\ XfDone /\ xfOut.action = "publish"
    /\ xfOut.eventData.tag = "event"
    /\ xfOut.eventData.data.kind = "chat"

Marked(v) == IsString(v) /\ HasGroupMarker(v)

\* The identifiers of the conversation a message carries
ConversationIds(o) == {o.from_user, o.id_remote_user, o.raw_from}

\* The conversation of a group message: the identifier that bears the marker
Conversations(o) == {v \in ConversationIds(o) : Marked(v)}

\* C32 (as claimed): a message with a conversation identifier that bears the
\* group marker and with a participant is normalized with isGroup true, the
\* participant as from_number and the conversation as group_id; a message
\* without the marker has its sender as from_number and a null group_id.
C32_GroupScoping ==
    ChatBuilt =>
        /\ (Conversations(Msg) # {} /\ Truthy(Msg.id_participant_user)) =>
              /\ Built.isGroup = TrueV
              /\ Built.from_number = Msg.id_participant_user
              /\ Built.from_number \notin Conversations(Msg)
              /\ Built.group_id \in Conversations(Msg)
        /\ Conversations(Msg) = {} =>
              /\ Built.from_number = Or(Msg.from_user, NullV)
              /\ Built.group_id = NullV

(***************************************************************************)
(* SpecInject: BrowserManager.injectEventListeners with store.js           *)
(* (BrowserManager.js 103-184, store.js 10-23 and 420-474).                *)
(***************************************************************************)
\* The page globals as injectEventListeners leaves them before it adds the
\* script (BrowserManager.js 108-112).  store.js assigns none of them, and
\* nothing evaluated in the page defines window[Symbol.for('__wb_bridge')].
PageGlobals == [injectionComplete |-> FALSE, listenersInjected |-> 0, bridge |-> FALSE]

\* BrowserManager.js 142-168
verifyInjection(page) == page.injectionComplete /\ page.listenersInjected > 0

\* store.js 10-23: the payload is handed to bridge.enqueue when the page has
\* a bridge and logged as undeliverable otherwise; window.whatsappEvents is
\* not written.
emit(queue, page, rec) == [queue |-> queue, enqueued |-> page.bridge]

\* BrowserManager.js 103-137: the queue is reset, the script is added and
\* attaches its listeners (store.js 453-474), the injection is verified.
StoreInject ==
    /\ filter = "none"
    /\ filter' = "store"
    /\ whatsappEvents' = <<>>
    /\ lastCall' = [NoCall EXCEPT !.kind = "inject", !.ok = verifyInjection(PageGlobals)]
    /\ UNCHANGED <<tick, processedMessages, seen, lastAccepted, xfVars, schedVars>>

\* One call of a store.js listener: r is the filter's answer.
StoreListener(key, hasId, r, rec) ==
    /\ whatsappEvents' = IF r.ok THEN emit(whatsappEvents, PageGlobals, rec).queue
                         ELSE whatsappEvents
    /\ lastAccepted' = IF r.ok THEN MapSet(lastAccepted, key, Now) ELSE lastAccepted
    /\ lastCall' = Call("store", key, hasId, FiveMinutesMs, r, whatsappEvents' # whatsappEvents)

\* store.js 453-458
StoreOnAdd(msg) ==
    /\ filter = "store"
    /\ LET r == shouldProcessMessage(processedMessages, msg, "create", Now) IN
       /\ processedMessages' = r.cache
       /\ StoreListener(MsgKey(msg, "create"), msg.id # NoId, r,
                        [type |-> "message_create", id |-> msg.id])
    /\ UNCHANGED <<filter, tick, seen, xfVars, schedVars>>

\* store.js 460-474
StoreOnChange(msg) ==
    /\ filter = "store"
    /\ msg.hasAck
    /\ msg.ack \in {1, 2, 3}
    /\ LET r == shouldProcessMessage(processedMessages, msg, ChangeType(msg), Now) IN
       /\ processedMessages' = r.cache
       /\ StoreListener(MsgKey(msg, ChangeType(msg)), msg.id # NoId, r,
                        [type |-> "message_" \o ChangeType(msg), id |-> msg.id])
    /\ UNCHANGED <<filter, tick, seen, xfVars, schedVars>>

\* BrowserManager.js 173-184: pollEvents returns the queue and empties it.
StorePoll ==
    /\ filter = "store"
    /\ whatsappEvents' = <<>>
    /\ lastCall' = [NoCall EXCEPT !.kind = "poll", !.ok = whatsappEvents # <<>>]
    /\ UNCHANGED <<filter, tick, processedMessages, seen, lastAccepted, xfVars, schedVars>>

InitInject == DedupIdle /\ XfIdle /\ SchedIdle

NextInject ==
    \/ StoreInject
    \/ \E msg \in Msgs : StoreOnAdd(msg)
    \/ \E msg \in Msgs : StoreOnChange(msg)
    \/ StorePoll
    \/ Advance

SpecInject == InitInject /\ [][NextInject]_vars

\* C33 (as claimed): an event a store.js listener emits is appended to the
\* queue that pollEvents drains, and injectEventListeners reports the
\* injection as verified once the script has attached its listeners.
C33_EmittedIsQueued ==
    /\ (lastCall.kind = "store" /\ lastCall.ok) => lastCall.pushed
    /\ (lastCall.kind = "inject" /\ filter = "store") => lastCall.ok

(***************************************************************************)
(* The legacy monolith: WhatsAppBridge.storeEvent (BrowserManager.js       *)
(* 313-386), compared with the modular pipeline under SpecPipeline.        *)
(***************************************************************************)
\* BrowserManager.js 353-371: the subject storeEvent publishes an event to
legacySubject(eventType) ==
    IF isContactEvent(eventType) THEN NatsConfig.contactSubject
    ELSE IF isPresenceEvent(eventType) THEN Or(NatsConfig.precenseSubject, "whatsapp.precense")
    ELSE NatsConfig.subject

\* BrowserManager.js 313-386: the (subject, payload) publishes storeEvent
\* makes for one raw event.  loadOk: getEventTransformers, which storeEvent
\* calls for every event, returns an instance; pubOk: publish accepts it.
storeEvent(rawEvent, loadOk, connected, pubOk) ==
    IF ~connected \/ ~loadOk THEN <<>>
    ELSE LET eventData == EventData(rawEvent) IN
         IF isIgnored(eventData)
         THEN IF pubOk THEN <<[subject |-> NatsConfig.ignoredSubject, payload |-> eventData]>>
              ELSE <<>>
         ELSE LET transformedEvent == transform(eventData) IN
              IF transformedEvent.tag \in {"raise", "null"} \/ ~pubOk THEN <<>>
              ELSE <<[subject |-> legacySubject(rawEvent.type), payload |-> transformedEvent]>>

\* The (subject, payload) publishes the pipeline added in this step
NewPublishes ==
    [i \in 1..(Len(published') - Len(published)) |->
        [subject |-> published'[Len(published) + i].subject,
         payload |-> published'[Len(published) + i].payload]]

C34_Step ==
    \A loadOk \in BOOLEAN, pubOk \in BOOLEAN, timeMs \in ProcessingTimes :
        PipeProcess(xfIn', loadOk, pubOk, timeMs) =>
            NewPublishes = storeEvent(xfIn', loadOk, natsConnected, pubOk)

\* C34 (as claimed): for every raw event processEvent publishes exactly what
\* the legacy storeEvent publishes for it: the same subjects with the same
\* payloads, in the same order.
C34_SameAsLegacy == [][C34_Step]_vars

(***************************************************************************)
(* SpecConfig: publishing and counting under a given config.nats           *)
(* (index.js 160-182, EventProcessor.js 200-243 and 274-297, part_000      *)
(* 69-84).                                                                 *)
(***************************************************************************)
\* config.nats as shipped, and without a presence subject
Configs == {NatsConfig, [NatsConfig EXCEPT !.precenseSubject = Undef]}

ConfigTypes == {"message_create", "contact_add", "presence_change", "connection_state"}

\* EventProcessor.js 230-243
determineSubjectIn(cfg, eventType) ==
    IF isContactEvent(eventType) THEN cfg.contactSubject
    ELSE IF isPresenceEvent(eventType) THEN Or(cfg.precenseSubject, "whatsapp.precense")
    ELSE cfg.subject

\* part_000 69-84
updateMessageStatsIn(cfg, ms, subject, success) ==
    IF ~success THEN [ms EXCEPT !.errors = @ + 1]
    ELSE IF subject = cfg.subject THEN [ms EXCEPT !.mainSubject = @ + 1]
    ELSE IF subject = cfg.contactSubject THEN [ms EXCEPT !.contactSubject = @ + 1]
    ELSE IF subject = cfg.ignoredSubject THEN [ms EXCEPT !.ignoredSubject = @ + 1]
    ELSE IF subject = cfg.precenseSubject THEN [ms EXCEPT !.presenceSubject = @ + 1]
    ELSE ms

\* The bridge was constructed with cfg: every message so far was published
\* under it.
ConfiguredWith(cfg) == \A i \in 1..Len(published) : published[i].config = cfg

\* index.js 160-168 and 178-182 with EventProcessor.js 200-225 and 274-297:
\* one publish call and the statistics update that follows it.  A publish
\* that raises ends in the catch block of index.js 201-204.
ConfigPublish(cfg, via, eventType, pubOk) ==
    /\ nCaptured < MaxEvents
    /\ ConfiguredWith(cfg)
    /\ nCaptured' = nCaptured + 1
    /\ \E subject \in {IF via = "publishIgnoredEvent" THEN cfg.ignoredSubject
                       ELSE determineSubjectIn(cfg, eventType)} :
          IF pubOk
          THEN /\ published' = Append(published,
                                      [seq |-> nCaptured', via |-> via, subject |-> subject,
                                       eventType |-> eventType, payload |-> [type |-> eventType],
                                       config |-> cfg])
               /\ messageStats' = updateMessageStatsIn(cfg, messageStats, subject, TRUE)
               /\ eventStats' = IF via = "publishIgnoredEvent"
                                THEN updateEventStats(updateEventStats(eventStats, eventType, "processed"),
                                                      eventType, "ignored")
                                ELSE updateEventStats(eventStats, eventType, "processed")
          ELSE /\ eventStats' = updateEventStats(updateEventStats(eventStats, eventType, "processed"),
                                                 eventType, "error")
               /\ UNCHANGED <<published, messageStats>>
    /\ UNCHANGED <<isRunning, bmRunning, bmBrowser, natsConnected, menu, loops, nLoops,
                   performanceStats, pageAlive, closePending, dedupVars, xfVars>>

InitConfig == DedupIdle /\ XfIdle /\ SchedIdle

NextConfig ==
    \/ \E cfg \in Configs, via \in {"publishEvent", "publishIgnoredEvent"},
          eventType \in ConfigTypes, pubOk \in BOOLEAN : ConfigPublish(cfg, via, eventType, pubOk)
    \/ resetStats

SpecConfig == InitConfig /\ [][NextConfig]_vars

\* The per-destination counters
DestinationCounters == {"mainSubject", "contactSubject", "ignoredSubject", "presenceSubject"}

\* The counter of the destination a message went to
CounterOf(d) ==
    IF d.via = "publishIgnoredEvent" THEN "ignoredSubject"
    ELSE IF isContactEvent(d.eventType) THEN "contactSubject"
    ELSE IF isPresenceEvent(d.eventType) THEN "presenceSubject"
    ELSE "mainSubject"

C35_Step ==
    Len(published') = Len(published) + 1 =>
        \A c \in DestinationCounters :
            messageStats'[c] = messageStats[c]
                + (IF c = CounterOf(published'[Len(published')]) THEN 1 ELSE 0)

\* C35 (as claimed): under every configuration, the default one and one
\* without a presence subject, a successful publish adds one to the counter
\* of the destination it went to and leaves the other destination counters
\* alone, so that the counters add up to the successful publishes.
C35_OneCounterPerPublish == [][C35_Step]_vars

(***************************************************************************)
(* The queue between the page and the polling loops (SpecSched)            *)
(***************************************************************************)
RecSeqs(s) == {s[i].seq : i \in 1..Len(s)}

Ascending(s) == \A i, j \in 1..Len(s) : i < j => s[i].seq < s[j].seq

\* No record is in two places, and records keep their push order
C36_State ==
    /\ Ascending(whatsappEvents)
    /\ \A l \in Loops :
          /\ Ascending(loops[l].batch)
          /\ RecSeqs(loops[l].batch) \cap RecSeqs(whatsappEvents) = {}
          /\ \A k \in Loops \ {l} : RecSeqs(loops[l].batch) \cap RecSeqs(loops[k].batch) = {}

C36_Step ==
    /\ \A l \in Loops :
          PollReturns(l) => (loops'[l].batch = whatsappEvents /\ whatsappEvents' = <<>>)
    /\ \A l \in Loops, message \in EvaluateErrors :
          PollRejects(l, message) => whatsappEvents' = whatsappEvents
    /\ \A kind \in QueuedKinds :
          PageQueues(kind) =>
              /\ Len(whatsappEvents') = Len(whatsappEvents) + 1
              /\ SubSeq(whatsappEvents', 1, Len(whatsappEvents)) = whatsappEvents
              /\ \A l \in Loops : loops'[l].batch = loops[l].batch

\* C36: a poll that succeeds hands the whole queue, in push order, to the
\* loop that made it and leaves the queue empty in the same step; a poll
\* that fails leaves the queue as it is, and a push only appends; so no
\* record is ever in the queue and in a batch, or in two batches, and every
\* batch is in push order.
C36_PollIsAtomic == [](C36_State) /\ [][C36_Step]_vars

\* a record was pushed while the batch holding the first one was in process
C36_Witness ==
    /\ loops[1].pc = "batch"
    /\ RecSeqs(loops[1].batch) = {1}
    /\ RecSeqs(whatsappEvents) = {2}

C37_Step ==
    /\ startBridge("injected") => (isRunning' /\ nLoops' = nLoops + 1)
    /\ \A outcome \in StartOutcomes \ {"injected"} :
          startBridge(outcome) => (~isRunning' /\ nLoops' = nLoops /\ loops' = Observe(loops, FALSE))

\* C37 (as claimed): startBridge sets isRunning and starts a polling loop
\* when connect, waitForAuthentication and injectEventListeners all
\* succeeded, and when any of them failed it leaves isRunning false and
\* starts no loop.
C37_StartsOnlyWhenAllSucceeded == [][C37_Step]_vars

\* C38: processEvent never answers 'filter': transform returns null only for
\* an event an ignore rule matches, and such an event got the ignore answer
\* before transform was called; so the filtered counter is 0 in every state.
C38_NeverFiltered ==
    /\ eventStats.filtered = 0
    /\ XfDone =>
          /\ xfOut.action # "filter"
          /\ transform(EventData(xfIn)).tag = "null" <=> isIgnored(EventData(xfIn))
          /\ (eventTransformers /\ isIgnored(EventData(xfIn))) =>
                (xfOut.action = "ignore" /\ xfOut.calls = <<"isIgnored">>)

\* an event that transform would drop was ignored, and counted as ignored
C38_Witness ==
    /\ XfDone
    /\ transform(EventData(xfIn)).tag = "null"
    /\ xfOut.action = "ignore"
    /\ eventStats.ignored = 1
    /\ eventStats.filtered = 0

\* The record a loop is about to process, and the processor's answer to it
NextRecord(l) == Head(loops[l].batch)

C39_Step ==
    /\ eventTransformers => eventTransformers'
    /\ \A l \in Loops, loadOk \in BOOLEAN, pubOk \in BOOLEAN, timeMs \in ProcessingTimes :
          (ProcessNext(l, loadOk, pubOk, timeMs) /\ ~NextRecord(l).isNull) =>
              /\ eventTransformers' = (eventTransformers \/ loadOk)
              /\ ~eventTransformers' =>
                    /\ EP_processEvent(NextRecord(l).ev, eventTransformers').action = "skip"
                    /\ EP_processEvent(NextRecord(l).ev, eventTransformers').reason
                          = "transformers_unavailable"
                    /\ published' = published
                    /\ messageStats' = messageStats
                    /\ eventStats'.errors = eventStats.errors
                    /\ loops'[l].pollingRetries <= loops[l].pollingRetries
                    /\ loops'[l].reason = loops[l].reason \/ loops'[l].reason = "not_running"
                    /\ \/ loops'[l].batch = Tail(loops[l].batch) /\ loops'[l].pc = "batch"
                       \/ Tail(loops[l].batch) = <<>> /\ loops'[l].pc \in {"timer", "stopped"}
              /\ eventTransformers' =>
                    EP_processEvent(NextRecord(l).ev, eventTransformers').action # "skip"

\* C39: while the transformers cannot be loaded an event gets the skip
\* answer with reason transformers_unavailable, nothing is published or
\* counted as an error for it and the loop goes on with the rest of its
\* batch; the load is attempted again for every later event until it
\* succeeds, and from then on the loaded instance stays in use.
C39_SkipUntilLoaded == [][C39_Step]_vars

\* the first record was skipped, the second was transformed and published
C39_Witness ==
    /\ eventTransformers
    /\ eventStats.total = 2 /\ eventStats.errors = 0
    /\ Len(published) = 1 /\ published[1].seq = 2
    /\ nLoops = 1 /\ loops[1].pollingRetries = 0

(***************************************************************************)
(* The scheduler under fair scheduling (SpecSchedFair): Node's event loop  *)
(* runs every timer that is due (setTimeout, index.js 134 and 139) and     *)
(* resumes every await whose promise has settled (isAlive, pollEvents,     *)
(* processEvent: index.js 95, 104, 108), so no step of a polling loop      *)
(* that stays enabled is postponed for ever.  What the page, the browser   *)
(* and the user do is not subject to fairness.                             *)
(***************************************************************************)
PollSettles(l) == PollReturns(l) \/ \E message \in EvaluateErrors : PollRejects(l, message)

RecordHandled(l) ==
    \E loadOk \in BOOLEAN, pubOk \in BOOLEAN, timeMs \in ProcessingTimes :
        ProcessNext(l, loadOk, pubOk, timeMs)

LoopFairness ==
    \A l \in Loops :
        /\ WF_vars(TimerFires(l))
        /\ WF_vars(ProbeReturns(l))
        /\ WF_vars(PollSettles(l))
        /\ WF_vars(RecordHandled(l))

\* no pollEvents closure of an earlier start is pending or in progress
NoLoopPending == \A l \in Loops : loops[l].pc \in {"unused", "stopped"}

\* The scheduler with a user who starts the bridge again only after the
\* polling loop of the previous start has halted.
NextSchedFair ==
    \/ \E kind \in QueuedKinds : PageQueues(kind)
    \/ PageDies
    \/ BM_handleBrowserClose
    \/ launch
    \/ \E outcome \in StartOutcomes : NoLoopPending /\ startBridge(outcome)
    \/ \E l \in Loops : TimerFires(l)
    \/ \E l \in Loops : ProbeReturns(l)
    \/ \E l \in Loops : PollReturns(l)
    \/ \E l \in Loops, message \in EvaluateErrors : PollRejects(l, message)
    \/ \E l \in Loops, loadOk \in BOOLEAN, pubOk \in BOOLEAN, timeMs \in ProcessingTimes :
            ProcessNext(l, loadOk, pubOk, timeMs)
    \/ stop
    \/ exit

SpecSchedFair == InitSched /\ [][NextSchedFair]_vars /\ LoopFairness

\* the loop issues a poll: its probe answered alive (index.js 95-104)
Polls(l) == ProbeReturns(l) /\ loops'[l].pc = "poll"

\* the try block of a tick ran to its end (index.js 111)
BatchCompleted(l) ==
    /\ loops[l].pc \in {"poll", "batch"}
    /\ loops'[l].pc \in {"timer", "stopped"}
    /\ loops'[l].pollingRetries = 0

Halts(l) == loops[l].pc # "stopped" /\ loops'[l].pc = "stopped"

C40_Step ==
    \A l \in Loops :
        /\ BatchCompleted(l) /\ isRunning => loops'[l].pc = "timer"
        /\ Halts(l) =>
              \/ /\ loops'[l].reason = "not_running"
                 /\ ~isRunning
              \/ /\ loops'[l].reason = "not_alive"
                 /\ loops[l].pc = "probe"
                 /\ ~(bmBrowser /\ pageAlive)
              \/ /\ loops'[l].reason = "fatal"
                 /\ \E message \in EvaluateErrors : IsFatal(message) /\ PollRejects(l, message)
              \/ /\ loops'[l].reason = "max_retries"
                 /\ loops'[l].pollingRetries = loops[l].pollingRetries + 1
                 /\ loops'[l].pollingRetries >= MaxRetries

C40_Live ==
    \A l \in Loops :
        \/ []<><<Polls(l)>>_vars
        \/ <>[](loops[l].pc \in {"unused", "stopped"} \/ menu = "exited")

====
